---- MODULE Spec2Model ----
(***************************************************************************)
(* SparkVote: the Event store, the Vote store, the voting-window          *)
(* evaluator, vote intake (submitVote) and the results aggregator          *)
(* (calculateResults), modelled from the backend controllers and the       *)
(* Mongoose schemas.                                                       *)
(*                                                                         *)
(* Time is a small integer clock; an event's date/startTime/closeTime pair *)
(* is kept as the two instants the code builds from it with new Date(), or *)
(* InvalidDate when the string does not parse.  Quotients (averages, final *)
(* scores) are exact fractions <<numerator, denominator>>.                 *)
(***************************************************************************)
EXTENDS Integers, Sequences, FiniteSets, TLC

VARIABLES events, votes, now, nextEventId, nextOid, nextSession, resp, flight

vars == <<events, votes, now, nextEventId, nextOid, nextSession, resp, flight>>

(***************************************************************************)
(* Bounds of the model.                                                    *)
(***************************************************************************)
MaxTime == 2
MaxEvents == 1
MaxOids == 2
MaxCriteria == 2
MaxAdminVotes == 1
MaxSessions == 2
MaxBatch == 2
MaxCalcVotes == 3

(***************************************************************************)
(* Program constants (schema defaults and limits).                         *)
(***************************************************************************)
DefaultWeight == 50
MinWeight == 0
MaxWeight == 100
MinMaxScore == 1
MaxMaxScore == 100
DefaultMaxScore == 10
MinScore == 1
MaxStoredScore == 100

(***************************************************************************)
(* Small input alphabets.                                                  *)
(***************************************************************************)
Users == {"u1", "u2"}
Times == 0..MaxTime
InvalidDate == 0 - 1
Overrides == {"true", "false", "null"}
EventIdInputs == 1..MaxEvents
BogusId == 0 - 2
NoWeight == 0 - 1
NaN == 0 - 1
Absent == "<absent>"

GroupNames == {"Judges", "Public"}
ProjectNames == {"Alpha"}
WeightInputs == {NoWeight, 0, 70, 101}
PasswordInputs == {"", "pw", " pw"}
GroupPasswordInputs == {Absent, "pw", " pw"}
VoteCodes == {"AB12"}
VoteCodeInputs == {"AB12", "ab12", "zz99"}
Windows == {<<1, 1>>}

\* String.prototype.trim and toUpperCase on the strings of the model.
trim(str) == IF str = " pw" THEN "pw" ELSE str
toUpperCase(str) ==
    IF str = "ab12" THEN "AB12" ELSE IF str = "zz99" THEN "ZZ99" ELSE str

(***************************************************************************)
(* Generic helpers.                                                        *)
(***************************************************************************)
Range(s) == {s[i] : i \in DOMAIN s}

SeqsUpTo(S, n) == UNION {[1..k -> S] : k \in 0..n}

\* Sum of f[x] over the finite set S (f a function defined on S).
RECURSIVE SumF(_, _)
SumF(f, S) ==
    IF S = {} THEN 0
    ELSE LET x == CHOOSE y \in S : TRUE IN f[x] + SumF(f, S \ {x})

\* Sum of the integers of a sequence.
RECURSIVE SumSeq(_)
SumSeq(s) == IF s = <<>> THEN 0 ELSE Head(s) + SumSeq(Tail(s))

RemoveAt(s, i) == [k \in 1..(Len(s) - 1) |-> IF k < i THEN s[k] ELSE s[k + 1]]

\* Exact fractions <<n, d>> with d > 0, standing for the JavaScript quotient n / d.
Frac(n, d) == <<n, d>>
FracZero == <<0, 1>>
FracOfInt(n) == <<n, 1>>
FracEq(a, b) == a[1] * b[2] = b[1] * a[2]
FracLt(a, b) == a[1] * b[2] < b[1] * a[2]
FracLe(a, b) == a[1] * b[2] <= b[1] * a[2]
FracAdd(a, b) == <<a[1] * b[2] + b[1] * a[2], a[2] * b[2]>>
FracMulInt(a, k) == <<a[1] * k, a[2]>>
FracDivInt(a, k) == <<a[1], a[2] * k>>

\* Date comparison: every comparison with an Invalid Date is false.
DateLt(a, b) == a # InvalidDate /\ b # InvalidDate /\ a < b
DateLe(a, b) == a # InvalidDate /\ b # InvalidDate /\ a <= b

(***************************************************************************)
(* Voting-window evaluator.                                                *)
(***************************************************************************)
\* An evaluator whose window excludes its end.
votingStatus_EndExclusive(ev, t) ==
    IF ev.isVotingOpen = "true" THEN "open"
    ELSE IF ev.isVotingOpen = "false" THEN "closed"
    ELSE IF DateLt(t, ev.start) THEN "upcoming"
    ELSE IF DateLe(ev.start, t) /\ DateLt(t, ev.end) THEN "open"
    ELSE "closed"

\* EventSchema.virtual('votingStatus'): the override first, then the window.
votingStatus(ev, t) ==
    IF ev.isVotingOpen = "true" THEN "open"
    ELSE IF ev.isVotingOpen = "false" THEN "closed"
    ELSE IF DateLt(t, ev.start) THEN "upcoming"
    ELSE IF DateLe(ev.start, t) /\ DateLe(t, ev.end) THEN "open"
    ELSE "closed"

(***************************************************************************)
(* Results aggregator.                                                     *)
(***************************************************************************)
IdsOf(list) == {list[i]._id : i \in DOMAIN list}

\* A per-vote total that counts the scores instead of adding them.
getTotalScore_CountScores(vote) == Cardinality(DOMAIN vote.scores)

\* Vote.getTotalScore / the projectTotal accumulated in calculateResults.
getTotalScore(vote) == SumF(vote.scores, DOMAIN vote.scores)

\* An effective weight that brings an override back into the range of stored weights.
effectiveWeight_Clamped(group, groupWeights) ==
    IF group._id \in DOMAIN groupWeights
    THEN IF groupWeights[group._id] < MinWeight THEN MinWeight
         ELSE IF groupWeights[group._id] > MaxWeight THEN MaxWeight
         ELSE groupWeights[group._id]
    ELSE group.weight

\* groupWeights && groupWeights[id] !== undefined ? groupWeights[id] : group.weight
effectiveWeight(group, groupWeights) ==
    IF group._id \in DOMAIN groupWeights THEN groupWeights[group._id]
    ELSE group.weight

\* The votes.forEach guard: the vote's project and group are both initialised.
countedVotes(event, vs) ==
    {v \in vs : v.project \in IdsOf(event.projects) /\ v.group \in IdsOf(event.groups)}

\* projectGroupScores[pid][gid] = { total, count }
projectGroupScores(event, vs, pid, gid) ==
    LET S == {v \in countedVotes(event, vs) : v.project = pid /\ v.group = gid}
    IN  [total |-> SumF([v \in S |-> getTotalScore(v)], S), count |-> Cardinality(S)]

\* avg = groupScore.count > 0 ? groupScore.total / groupScore.count : 0
groupScoreAverage(event, vs, pid, gid) ==
    LET gs == projectGroupScores(event, vs, pid, gid)
    IN  IF gs.count > 0 THEN Frac(gs.total, gs.count) ELSE FracZero

\* project.groupAverages[groupName] = avg, assigned in group order: the last group
\* bearing a name decides the entry stored under that name.
groupAverages(event, vs, pid) ==
    [n \in {event.groups[i].name : i \in DOMAIN event.groups} |->
        LET last == CHOOSE i \in DOMAIN event.groups :
                        /\ event.groups[i].name = n
                        /\ \A j \in DOMAIN event.groups :
                               event.groups[j].name = n => j <= i
        IN  groupScoreAverage(event, vs, pid, event.groups[last]._id)]

\* weightedSum += avg * weight over the groups, in order.
RECURSIVE weightedSum(_, _, _, _)
weightedSum(event, gavg, groupWeights, k) ==
    IF k = 0 THEN FracZero
    ELSE FracAdd(weightedSum(event, gavg, groupWeights, k - 1),
                 FracMulInt(gavg[event.groups[k].name],
                            effectiveWeight(event.groups[k], groupWeights)))

totalWeight(event, groupWeights) ==
    SumSeq([k \in DOMAIN event.groups |-> effectiveWeight(event.groups[k], groupWeights)])

\* project.finalScore = totalWeight > 0 ? weightedSum / totalWeight : 0
finalScore(event, vs, groupWeights, pid) ==
    LET tw == totalWeight(event, groupWeights)
        ws == weightedSum(event, groupAverages(event, vs, pid), groupWeights,
                          Len(event.groups))
    IN  IF tw > 0 THEN FracDivInt(ws, tw) ELSE FracZero

\* One entry of projectResults before ranking (criteriaScores, description and
\* teamMembers are carried through unchanged by the code and are left out).
projectResult(event, vs, groupWeights, project) ==
    LET S == {v \in countedVotes(event, vs) : v.project = project._id}
        total == SumF([v \in S |-> getTotalScore(v)], S)
        count == Cardinality(S)
    IN  [id |-> project._id,
         name |-> project.name,
         totalScore |-> total,
         voteCount |-> count,
         averageScore |-> IF count > 0 THEN Frac(total, count) ELSE FracZero,
         groupAverages |-> groupAverages(event, vs, project._id),
         finalScore |-> finalScore(event, vs, groupWeights, project._id),
         rank |-> 0]

\* A group entry that counts a voter once per vote.
groupResult_VoterPerVote(event, vs, groupWeights, group) ==
    LET S == {v \in countedVotes(event, vs) : v.group = group._id}
    IN  [id |-> group._id,
         name |-> group.name,
         weight |-> effectiveWeight(group, groupWeights),
         totalScore |-> SumF([v \in S |-> getTotalScore(v)], S),
         voteCount |-> Cardinality(S),
         voterCount |-> Cardinality(S),
         rank |-> 0]

\* One entry of groupResults before ranking.
groupResult(event, vs, groupWeights, group) ==
    LET S == {v \in countedVotes(event, vs) : v.group = group._id}
    IN  [id |-> group._id,
         name |-> group.name,
         weight |-> effectiveWeight(group, groupWeights),
         totalScore |-> SumF([v \in S |-> getTotalScore(v)], S),
         voteCount |-> Cardinality(S),
         voterCount |-> Cardinality({v.voterSessionId : v \in S}),
         rank |-> 0]

\* An insertion that puts an entry before the entries it ties with.
RECURSIVE insertDesc_TiesFirst(_, _)
insertDesc_TiesFirst(s, x) ==
    IF s = <<>> THEN <<x>>
    ELSE IF FracLe(Head(s).key, x.key) THEN <<x>> \o s
    ELSE <<Head(s)>> \o insertDesc_TiesFirst(Tail(s), x)

\* Array.prototype.sort with (a, b) => b.key - a.key: descending, stable.
RECURSIVE insertDesc(_, _)
insertDesc(s, x) ==
    IF s = <<>> THEN <<x>>
    ELSE IF FracLt(Head(s).key, x.key) THEN <<x>> \o s
    ELSE <<Head(s)>> \o insertDesc(Tail(s), x)

\* A sort that inserts the entries from the last to the first, so that entries
\* that tie come out in reverse.
RECURSIVE sortDesc_FromTail(_)
sortDesc_FromTail(s) ==
    IF s = <<>> THEN <<>>
    ELSE insertDesc(sortDesc_FromTail(Tail(s)), Head(s))

RECURSIVE sortDesc(_)
sortDesc(s) ==
    IF s = <<>> THEN <<>>
    ELSE insertDesc(sortDesc(SubSeq(s, 1, Len(s) - 1)), s[Len(s)])

\* .map((x, index) => ({ ...x, rank: index + 1 }))
withRank(sorted) ==
    [i \in DOMAIN sorted |-> [sorted[i].val EXCEPT !.rank = i]]

calculateResults(event, vs, groupWeights) ==
    LET ps == [i \in DOMAIN event.projects |->
                 projectResult(event, vs, groupWeights, event.projects[i])]
        gs == [i \in DOMAIN event.groups |->
                 groupResult(event, vs, groupWeights, event.groups[i])]
    IN  [projects |-> withRank(sortDesc([i \in DOMAIN ps |->
                          [key |-> ps[i].finalScore, val |-> ps[i]]])),
         groups |-> withRank(sortDesc([i \in DOMAIN gs |->
                          [key |-> FracOfInt(gs[i].totalScore), val |-> gs[i]]]))]

(***************************************************************************)
(* Event store: schema behaviour.                                          *)
(***************************************************************************)
defaultCriteria ==
    << [name |-> "Creativity", maxScore |-> DefaultMaxScore],
       [name |-> "Execution", maxScore |-> DefaultMaxScore],
       [name |-> "Impact", maxScore |-> DefaultMaxScore] >>

\* A save hook that installs the standard criteria whatever the list holds.
preSave_AlwaysDefault(ev) == [ev EXCEPT !.criteria = defaultCriteria]

\* EventSchema.pre('save'): default criteria when the list is empty.
preSave(ev) ==
    IF Len(ev.criteria) = 0 THEN [ev EXCEPT !.criteria = defaultCriteria] ELSE ev

\* A save() that runs no validators.
schemaValid_Unchecked(ev) == TRUE

\* Schema validators run by save(): weight in [0, 100], maxScore in [1, 100].
schemaValid(ev) ==
    /\ \A i \in DOMAIN ev.groups :
          ev.groups[i].weight >= MinWeight /\ ev.groups[i].weight <= MaxWeight
    /\ \A i \in DOMAIN ev.criteria :
          ev.criteria[i].maxScore >= MinMaxScore /\ ev.criteria[i].maxScore <= MaxMaxScore

\* A GroupSchema sub-document built from request data: default weight, trimmed password.
newGroup(in, id) ==
    [_id |-> id,
     name |-> in.name,
     weight |-> IF in.weight = NoWeight THEN DefaultWeight ELSE in.weight,
     password |-> trim(in.password)]

newProject(in, id) == [_id |-> id, name |-> in.name]

Reply(op, status, req, data) == [op |-> op, status |-> status, req |-> req, data |-> data]

Exists(e) == e \in DOMAIN events

\* The common prologue of the owner-only handlers: findById, 404, owner check, 403.
\* A gate that lets every caller of an existing event through.
ownerGate_AnyCaller(u, e) == IF ~Exists(e) THEN 404 ELSE 200

\* if (!event) 404; if (event.owner.toString() !== req.user.id) 403
ownerGate(u, e) ==
    IF ~Exists(e) THEN 404
    ELSE IF events[e].owner # u THEN 403
    ELSE 200

storeUnchanged == UNCHANGED <<events, votes, nextEventId, nextOid, nextSession>>

(***************************************************************************)
(* Event controller.                                                       *)
(***************************************************************************)
CreateGroupInputs ==
    {[name |-> "Judges", weight |-> 70, password |-> " pw"]}
CreateProjectInputs == {[name |-> "Alpha"]}
CreateCriteriaInputs == {[name |-> "Creativity", maxScore |-> 10]}

CreateBodies ==
    [valid : BOOLEAN,
     window : Windows,
     groups : SeqsUpTo(CreateGroupInputs, 1),
     projects : SeqsUpTo(CreateProjectInputs, 1),
     criteria : SeqsUpTo(CreateCriteriaInputs, 1),
     voteCode : VoteCodes]

createEvent(u, body) ==
    /\ UNCHANGED <<votes, now, nextSession>>
    /\ LET req == [user |-> u, body |-> body]
           ev == preSave(
                  [owner |-> u,
                   isActive |-> TRUE,
                   isVotingOpen |-> "null",
                   start |-> body.window[1],
                   end |-> body.window[2],
                   voteCode |-> body.voteCode,
                   groups |-> [i \in DOMAIN body.groups |->
                                 newGroup(body.groups[i], nextOid + i - 1)],
                   projects |-> [i \in DOMAIN body.projects |->
                                   newProject(body.projects[i],
                                              nextOid + Len(body.groups) + i - 1)],
                   criteria |-> body.criteria])
           codeTaken == \E x \in DOMAIN events : events[x].voteCode = ev.voteCode
       IN  IF ~body.valid
           THEN /\ resp' = Reply("createEvent", 400, req, "Validation errors")
                /\ UNCHANGED <<events, nextEventId, nextOid>>
           ELSE IF ~schemaValid(ev) \/ codeTaken
           THEN /\ resp' = Reply("createEvent", 500, req, "Server error")
                /\ UNCHANGED <<events, nextEventId, nextOid>>
           ELSE /\ events' = (nextEventId :> ev) @@ events
                /\ nextEventId' = nextEventId + 1
                /\ nextOid' = nextOid + Len(body.groups) + Len(body.projects)
                /\ resp' = Reply("createEvent", 201, req, ev)

getEvent(u, e) ==
    /\ UNCHANGED <<events, votes, now, nextEventId, nextOid, nextSession>>
    /\ LET req == [user |-> u, event |-> e]
           gate == ownerGate(u, e)
       IN  IF gate = 404 THEN resp' = Reply("getEvent", 404, req, "Event not found")
           ELSE IF gate = 403
           THEN resp' = Reply("getEvent", 403, req, "Not authorized to access this event")
           ELSE resp' = Reply("getEvent", 200, req, events[e])

UpdateBodies ==
    [valid : BOOLEAN,
     window : Windows,
     isActive : {"true", "false", Absent},
     isVotingOpen : {"true", "false", "null", Absent}]

\* findByIdAndUpdate: a field the request leaves undefined is not written.
applyUpdate(ev, body) ==
    [ev EXCEPT !.start = body.window[1],
               !.end = body.window[2],
               !.isActive = IF body.isActive = Absent THEN @ ELSE body.isActive = "true",
               !.isVotingOpen = IF body.isVotingOpen = Absent THEN @ ELSE body.isVotingOpen]

updateEvent(u, e, body) ==
    /\ UNCHANGED <<votes, now, nextEventId, nextOid, nextSession>>
    /\ LET req == [user |-> u, event |-> e, body |-> body]
           gate == ownerGate(u, e)
       IN  IF ~body.valid
           THEN resp' = Reply("updateEvent", 400, req, "Validation errors") /\ UNCHANGED events
           ELSE IF gate = 404
           THEN resp' = Reply("updateEvent", 404, req, "Event not found") /\ UNCHANGED events
           ELSE IF gate = 403
           THEN /\ resp' = Reply("updateEvent", 403, req, "Not authorized to update this event")
                /\ UNCHANGED events
           ELSE /\ events' = [events EXCEPT ![e] = applyUpdate(@, body)]
                /\ resp' = Reply("updateEvent", 200, req, applyUpdate(events[e], body))

\* openVoting / closeVoting: event.isVotingOpen = value; event.save().
setVotingOpen(op, u, e, value) ==
    /\ UNCHANGED <<votes, now, nextEventId, nextOid, nextSession>>
    /\ LET req == [user |-> u, event |-> e]
           gate == ownerGate(u, e)
       IN  IF gate = 404
           THEN resp' = Reply(op, 404, req, "Event not found") /\ UNCHANGED events
           ELSE IF gate = 403
           THEN resp' = Reply(op, 403, req, "Not authorized") /\ UNCHANGED events
           ELSE LET ev == preSave([events[e] EXCEPT !.isVotingOpen = value])
                IN  /\ events' = [events EXCEPT ![e] = ev]
                    /\ resp' = Reply(op, 200, req, ev)

openVoting(u, e) == setVotingOpen("openVoting", u, e, "true")

closeVoting(u, e) == setVotingOpen("closeVoting", u, e, "false")

GroupInputs == [name : GroupNames, weight : WeightInputs, password : PasswordInputs]

\* groupValidation: weight is optional, otherwise an integer in [0, 100].
groupValidation(body) ==
    body.weight = NoWeight \/ (body.weight >= MinWeight /\ body.weight <= MaxWeight)

\* The mutation an owner-only sub-resource handler applies, then event.save():
\* a failing save (schema validation) is caught and answered with 500.
saveEvent(op, req, e, ev, data) ==
    IF ~schemaValid(preSave(ev))
    THEN resp' = Reply(op, 500, req, "Server error") /\ UNCHANGED events
    ELSE /\ events' = [events EXCEPT ![e] = preSave(ev)]
         /\ resp' = Reply(op, 200, req, data)

addGroup(u, e, body) ==
    /\ UNCHANGED <<votes, now, nextEventId, nextSession>>
    /\ LET req == [user |-> u, event |-> e, body |-> body]
           gate == ownerGate(u, e)
       IN  IF ~groupValidation(body)
           THEN resp' = Reply("addGroup", 400, req, "Validation errors")
                /\ UNCHANGED <<events, nextOid>>
           ELSE IF gate = 404
           THEN resp' = Reply("addGroup", 404, req, "Event not found")
                /\ UNCHANGED <<events, nextOid>>
           ELSE IF gate = 403
           THEN resp' = Reply("addGroup", 403, req, "Not authorized to modify this event")
                /\ UNCHANGED <<events, nextOid>>
           ELSE LET g == newGroup(body, nextOid)
                IN  /\ saveEvent("addGroup", req, e,
                                  [events[e] EXCEPT !.groups = Append(@, g)], g)
                    /\ nextOid' = nextOid + 1

ProjectInputs == [name : ProjectNames \cup {""}]

\* projectValidation: the name has 1 to 200 characters.
projectValidation(body) == body.name # ""

addProject(u, e, body) ==
    /\ UNCHANGED <<votes, now, nextEventId, nextSession>>
    /\ LET req == [user |-> u, event |-> e, body |-> body]
           gate == ownerGate(u, e)
       IN  IF ~projectValidation(body)
           THEN resp' = Reply("addProject", 400, req, "Validation errors")
                /\ UNCHANGED <<events, nextOid>>
           ELSE IF gate = 404
           THEN resp' = Reply("addProject", 404, req, "Event not found")
                /\ UNCHANGED <<events, nextOid>>
           ELSE IF gate = 403
           THEN resp' = Reply("addProject", 403, req, "Not authorized to modify this event")
                /\ UNCHANGED <<events, nextOid>>
           ELSE LET p == newProject(body, nextOid)
                IN  /\ saveEvent("addProject", req, e,
                                  [events[e] EXCEPT !.projects = Append(@, p)], p)
                    /\ nextOid' = nextOid + 1

CriteriaInputs == [name : {"Creativity", "Execution"}, maxScore : {0, 5, 10}]

\* criteriaValidation and the handler's own check: maxScore in [1, 100].
criteriaValidation(body) == body.maxScore >= MinMaxScore /\ body.maxScore <= MaxMaxScore

addCriteria(u, e, body) ==
    /\ UNCHANGED <<votes, now, nextEventId, nextOid, nextSession>>
    /\ LET req == [user |-> u, event |-> e, body |-> body]
           gate == ownerGate(u, e)
       IN  IF ~criteriaValidation(body)
           THEN resp' = Reply("addCriteria", 400, req, "Validation errors") /\ UNCHANGED events
           ELSE IF gate = 404
           THEN resp' = Reply("addCriteria", 404, req, "Event not found") /\ UNCHANGED events
           ELSE IF gate = 403
           THEN /\ resp' = Reply("addCriteria", 403, req, "Not authorized to modify this event")
                /\ UNCHANGED events
           ELSE IF body.maxScore < MinMaxScore \/ body.maxScore > MaxMaxScore
           THEN /\ resp' = Reply("addCriteria", 400, req, "Max score must be between 1 and 100")
                /\ UNCHANGED events
           ELSE saveEvent("addCriteria", req, e,
                          [events[e] EXCEPT !.criteria = Append(@, body)], body)

\* index = parseInt(req.params.index), NaN when the parameter is no number;
\* event.criteria.splice(index, 1) counts from 0.
removeCriteria(u, e, index) ==
    /\ UNCHANGED <<votes, now, nextEventId, nextOid, nextSession>>
    /\ LET req == [user |-> u, event |-> e, index |-> index]
           gate == ownerGate(u, e)
       IN  IF gate = 404
           THEN resp' = Reply("removeCriteria", 404, req, "Event not found") /\ UNCHANGED events
           ELSE IF gate = 403
           THEN /\ resp' = Reply("removeCriteria", 403, req, "Not authorized to modify this event")
                /\ UNCHANGED events
           ELSE IF index = NaN \/ index < 0 \/ index >= Len(events[e].criteria)
           THEN /\ resp' = Reply("removeCriteria", 400, req, "Invalid criteria index")
                /\ UNCHANGED events
           ELSE saveEvent("removeCriteria", req, e,
                          [events[e] EXCEPT !.criteria = RemoveAt(@, index + 1)],
                          events[e].criteria[index + 1])

\* A deleteEvent that deletes the votes of the event with it.
deleteEvent_WithVotes(u, e) ==
    /\ UNCHANGED <<now, nextEventId, nextOid, nextSession>>
    /\ LET req == [user |-> u, event |-> e]
           gate == ownerGate(u, e)
       IN  IF gate = 404
           THEN resp' = Reply("deleteEvent", 404, req, "Event not found")
                /\ UNCHANGED <<events, votes>>
           ELSE IF gate = 403
           THEN /\ resp' = Reply("deleteEvent", 403, req, "Not authorized to delete this event")
                /\ UNCHANGED <<events, votes>>
           ELSE /\ events' = [x \in DOMAIN events \ {e} |-> events[x]]
                /\ votes' = {v \in votes : v.event # e}
                /\ resp' = Reply("deleteEvent", 200, req, "Event deleted successfully")

deleteEvent(u, e) ==
    /\ UNCHANGED <<votes, now, nextEventId, nextOid, nextSession>>
    /\ LET req == [user |-> u, event |-> e]
           gate == ownerGate(u, e)
       IN  IF gate = 404
           THEN resp' = Reply("deleteEvent", 404, req, "Event not found") /\ UNCHANGED events
           ELSE IF gate = 403
           THEN /\ resp' = Reply("deleteEvent", 403, req, "Not authorized to delete this event")
                /\ UNCHANGED events
           ELSE /\ events' = [x \in DOMAIN events \ {e} |-> events[x]]
                /\ resp' = Reply("deleteEvent", 200, req, "Event deleted successfully")

\* event.groups.pull(id) / event.projects.pull(id)
pull(list, id) == SelectSeq(list, LAMBDA x : x._id # id)

\* A removeGroup that deletes every vote of the event.
removeGroup_AllVotes(u, e, gid) ==
    /\ UNCHANGED <<now, nextEventId, nextOid, nextSession>>
    /\ LET req == [user |-> u, event |-> e, groupId |-> gid]
           gate == ownerGate(u, e)
       IN  IF gate = 404
           THEN resp' = Reply("removeGroup", 404, req, "Event not found")
                /\ UNCHANGED <<events, votes>>
           ELSE IF gate = 403
           THEN /\ resp' = Reply("removeGroup", 403, req, "Not authorized to modify this event")
                /\ UNCHANGED <<events, votes>>
           ELSE LET ev == [events[e] EXCEPT !.groups = pull(@, gid)]
                IN  IF ~schemaValid(preSave(ev))
                    THEN resp' = Reply("removeGroup", 500, req, "Server error")
                         /\ UNCHANGED <<events, votes>>
                    ELSE /\ events' = [events EXCEPT ![e] = preSave(ev)]
                         /\ votes' = {v \in votes : v.event # e}
                         /\ resp' = Reply("removeGroup", 200, req, "Group removed successfully")

removeGroup(u, e, gid) ==
    /\ UNCHANGED <<now, nextEventId, nextOid, nextSession>>
    /\ LET req == [user |-> u, event |-> e, groupId |-> gid]
           gate == ownerGate(u, e)
       IN  IF gate = 404
           THEN resp' = Reply("removeGroup", 404, req, "Event not found")
                /\ UNCHANGED <<events, votes>>
           ELSE IF gate = 403
           THEN /\ resp' = Reply("removeGroup", 403, req, "Not authorized to modify this event")
                /\ UNCHANGED <<events, votes>>
           ELSE LET ev == [events[e] EXCEPT !.groups = pull(@, gid)]
                IN  IF ~schemaValid(preSave(ev))
                    THEN resp' = Reply("removeGroup", 500, req, "Server error")
                         /\ UNCHANGED <<events, votes>>
                    ELSE /\ events' = [events EXCEPT ![e] = preSave(ev)]
                         /\ votes' = {v \in votes : ~(v.event = e /\ v.group = gid)}
                         /\ resp' = Reply("removeGroup", 200, req, "Group removed successfully")

removeProject(u, e, pid) ==
    /\ UNCHANGED <<votes, now, nextEventId, nextOid, nextSession>>
    /\ LET req == [user |-> u, event |-> e, projectId |-> pid]
           gate == ownerGate(u, e)
       IN  IF gate = 404
           THEN resp' = Reply("removeProject", 404, req, "Event not found") /\ UNCHANGED events
           ELSE IF gate = 403
           THEN /\ resp' = Reply("removeProject", 403, req, "Not authorized to modify this event")
                /\ UNCHANGED events
           ELSE saveEvent("removeProject", req, e,
                          [events[e] EXCEPT !.projects = pull(@, pid)],
                          "Project removed successfully")

\* The route's validator: weight is an integer in [0, 100].
weightValidation(weight) == weight >= MinWeight /\ weight <= MaxWeight

setWeight(list, gid, weight) ==
    [i \in DOMAIN list |-> IF list[i]._id = gid THEN [list[i] EXCEPT !.weight = weight]
                           ELSE list[i]]

updateGroupWeight(u, e, gid, weight) ==
    /\ UNCHANGED <<votes, now, nextEventId, nextOid, nextSession>>
    /\ LET req == [user |-> u, event |-> e, groupId |-> gid, weight |-> weight]
           gate == ownerGate(u, e)
       IN  IF ~weightValidation(weight)
           THEN resp' = Reply("updateGroupWeight", 400, req, "Validation errors")
                /\ UNCHANGED events
           ELSE IF gate = 404
           THEN resp' = Reply("updateGroupWeight", 404, req, "Event not found")
                /\ UNCHANGED events
           ELSE IF gate = 403
           THEN /\ resp' = Reply("updateGroupWeight", 403, req,
                                 "Not authorized to modify this event")
                /\ UNCHANGED events
           ELSE IF gid \notin IdsOf(events[e].groups)
           THEN /\ resp' = Reply("updateGroupWeight", 404, req, "Group not found")
                /\ UNCHANGED events
           ELSE saveEvent("updateGroupWeight", req, e,
                          [events[e] EXCEPT !.groups = setWeight(@, gid, weight)],
                          [id |-> gid, weight |-> weight])

(***************************************************************************)
(* Public read of an event by its vote code.                               *)
(***************************************************************************)
\* groups.map(g => ({ id, name, weight, hasPassword: !!g.password }))
\* A public view of a group that carries the password along.
publicGroup_LeakPassword(g) ==
    [id |-> g._id, name |-> g.name, weight |-> g.weight,
     hasPassword |-> g.password # "", password |-> g.password]

\* g => ({ id, name, weight, hasPassword: !!g.password })
publicGroup(g) ==
    [id |-> g._id, name |-> g.name, weight |-> g.weight, hasPassword |-> g.password # ""]

publicEvent(e, ev) ==
    [id |-> e,
     start |-> ev.start,
     end |-> ev.end,
     voteCode |-> ev.voteCode,
     groups |-> [i \in DOMAIN ev.groups |-> publicGroup(ev.groups[i])],
     projects |-> [i \in DOMAIN ev.projects |->
                     [id |-> ev.projects[i]._id, name |-> ev.projects[i].name]],
     criteria |-> ev.criteria]

\* Event.findOne({ voteCode: code.toUpperCase(), isActive: true })
findByVoteCode(code) ==
    {e \in DOMAIN events : events[e].voteCode = toUpperCase(code) /\ events[e].isActive}

getEventByVoteCode(code) ==
    /\ UNCHANGED <<events, votes, now, nextEventId, nextOid, nextSession>>
    /\ LET req == [voteCode |-> code]
           found == findByVoteCode(code)
       IN  IF found = {}
           THEN resp' = Reply("getEventByVoteCode", 404, req, "Event not found or inactive")
           ELSE LET e == CHOOSE x \in found : TRUE
                IN  resp' = Reply("getEventByVoteCode", 200, req, publicEvent(e, events[e]))

(***************************************************************************)
(* Voting controller: vote intake.                                         *)
(***************************************************************************)
ScoreInputs ==
    { [Creativity |-> 8, Execution |-> 6],
      [Creativity |-> 11],
      [Creativity |-> 0],
      [Bogus |-> 5],
      [c \in {} |-> 0] }

\* event.criteria.find(c => c.name === criterionName)
hasCriterion(ev, name) == \E i \in DOMAIN ev.criteria : ev.criteria[i].name = name

findCriterion(ev, name) ==
    ev.criteria[CHOOSE i \in DOMAIN ev.criteria :
                   /\ ev.criteria[i].name = name
                   /\ \A j \in DOMAIN ev.criteria : ev.criteria[j].name = name => i <= j]

\* A per-criterion loop that checks the lower bound only.
rejectedKeys_NoUpperBound(ev, scores) ==
    {k \in DOMAIN scores :
        \/ ~hasCriterion(ev, k)
        \/ scores[k] < MinScore}

\* The keys of a scores object that the per-criterion loop rejects.
rejectedKeys(ev, scores) ==
    {k \in DOMAIN scores :
        \/ ~hasCriterion(ev, k)
        \/ scores[k] < MinScore
        \/ scores[k] > findCriterion(ev, k).maxScore}

\* VoteSchema's validator on scores, run by vote.save(): every value in [1, 100].
voteSchemaValid(scores) ==
    \A k \in DOMAIN scores : scores[k] >= MinScore /\ scores[k] <= MaxStoredScore

findGroup(ev, gid) == ev.groups[CHOOSE i \in DOMAIN ev.groups : ev.groups[i]._id = gid]

\* A password check that is skipped when the request carries no groupPassword.
passwordRejected_OnlyWhenSupplied(group, groupPassword) ==
    groupPassword # Absent /\ group.password # "" /\ group.password # groupPassword

\* group.password && group.password !== groupPassword
passwordRejected(group, groupPassword) ==
    group.password # "" /\ group.password # groupPassword

\* A lookup that never finds the earlier vote.
existingVote_Never(store, e, sid, pid) == FALSE

\* A lookup that matches the votes of every voter session.
existingVote_AnySession(store, e, sid, pid) ==
    \E v \in store : v.event = e /\ v.project = pid

\* Vote.findOne({ event, voterSessionId, project })
existingVote(store, e, sid, pid) ==
    \E v \in store : v.event = e /\ v.voterSessionId = sid /\ v.project = pid

\* The unique index on (event, voterSessionId, project), checked by the store on insert.
uniqueIndexViolated(store, vote) ==
    \E v \in store : /\ v.event = vote.event
                      /\ v.voterSessionId = vote.voterSessionId
                      /\ v.project = vote.project

\* The for-loop of submitVote over the entries k..Len(batch): the Vote store it
\* leaves and the response it ends with.
RECURSIVE processVotes(_, _, _, _, _, _, _)
processVotes(ev, e, store, batch, k, sid, groupPassword) ==
    IF k > Len(batch)
    THEN [votes |-> store, status |-> 201,
          data |-> [kind |-> "Votes submitted successfully", sessionId |-> sid,
                    votesCount |-> Len(batch)]]
    ELSE LET entry == batch[k]
             vote == [_id |-> <<sid, entry.projectId>>,
                      event |-> e,
                      project |-> entry.projectId,
                      group |-> entry.groupId,
                      scores |-> entry.scores,
                      voterSessionId |-> sid]
             fail(status, data) == [votes |-> store, status |-> status, data |-> data]
         IN  IF entry.projectId \notin IdsOf(ev.projects)
             THEN fail(400, [kind |-> "Project not found", id |-> entry.projectId])
             ELSE IF entry.groupId \notin IdsOf(ev.groups)
             THEN fail(400, [kind |-> "Group not found", id |-> entry.groupId])
             ELSE IF passwordRejected(findGroup(ev, entry.groupId), groupPassword)
             THEN fail(403, [kind |-> "Invalid group password"])
             ELSE IF rejectedKeys(ev, entry.scores) # {}
             THEN LET c == CHOOSE x \in rejectedKeys(ev, entry.scores) : TRUE
                  IN  IF ~hasCriterion(ev, c)
                      THEN fail(400, [kind |-> "Criterion not found", criterion |-> c])
                      ELSE fail(400, [kind |-> "Score out of range", criterion |-> c,
                                      min |-> MinScore,
                                      max |-> findCriterion(ev, c).maxScore])
             ELSE IF existingVote(store, e, sid, entry.projectId)
             THEN fail(400, [kind |-> "Vote already submitted", id |-> entry.projectId])
             ELSE IF ~voteSchemaValid(entry.scores) \/ uniqueIndexViolated(store, vote)
             THEN fail(500, [kind |-> "Server error"])
             ELSE processVotes(ev, e, store \cup {vote}, batch, k + 1, sid, groupPassword)

\* A gate that honours the forced-open override only.
votingOpen_OverrideIgnored(ev, t) ==
    IF ev.isVotingOpen = "true" THEN TRUE
    ELSE DateLe(ev.start, t) /\ DateLe(t, ev.end)

\* votingOpen as submitVote computes it from the override and the window.
votingOpen(ev, t) ==
    IF ev.isVotingOpen = "true" THEN TRUE
    ELSE IF ev.isVotingOpen = "false" THEN FALSE
    ELSE DateLe(ev.start, t) /\ DateLe(t, ev.end)

\* A generator that hands out an id a stored vote already carries.
uuidv4_Reused ==
    IF votes = {} THEN nextSession ELSE (CHOOSE v \in votes : TRUE).voterSessionId

\* const voterSessionId = uuidv4(): an id no earlier submission was given.
uuidv4 == nextSession

\* A submitVote that undoes the votes of its batch when an entry fails.
submitVote_RollsBack(e, batch, groupPassword) ==
    /\ UNCHANGED <<events, now, nextEventId, nextOid>>
    /\ LET req == [event |-> e, votes |-> batch, groupPassword |-> groupPassword]
       IN  IF Len(batch) = 0
           THEN /\ resp' = Reply("submitVote", 400, req, [kind |-> "Validation errors"])
                /\ UNCHANGED <<votes, nextSession>>
           ELSE IF ~Exists(e) \/ ~events[e].isActive
           THEN /\ resp' = Reply("submitVote", 404, req,
                                 [kind |-> "Event not found or inactive"])
                /\ UNCHANGED <<votes, nextSession>>
           ELSE IF ~votingOpen(events[e], now)
           THEN /\ resp' = Reply("submitVote", 403, req,
                                 [kind |-> "Voting is not open for this event."])
                /\ UNCHANGED <<votes, nextSession>>
           ELSE LET out == processVotes(events[e], e, votes, batch, 1, uuidv4,
                                        groupPassword)
                IN  /\ votes' = IF out.status = 201 THEN out.votes ELSE votes
                    /\ nextSession' = nextSession + 1
                    /\ resp' = Reply("submitVote", out.status, req, out.data)

submitVote(e, batch, groupPassword) ==
    /\ UNCHANGED <<events, now, nextEventId, nextOid>>
    /\ LET req == [event |-> e, votes |-> batch, groupPassword |-> groupPassword]
       IN  IF Len(batch) = 0
           THEN /\ resp' = Reply("submitVote", 400, req, [kind |-> "Validation errors"])
                /\ UNCHANGED <<votes, nextSession>>
           ELSE IF ~Exists(e) \/ ~events[e].isActive
           THEN /\ resp' = Reply("submitVote", 404, req,
                                 [kind |-> "Event not found or inactive"])
                /\ UNCHANGED <<votes, nextSession>>
           ELSE IF ~votingOpen(events[e], now)
           THEN /\ resp' = Reply("submitVote", 403, req,
                                 [kind |-> "Voting is not open for this event."])
                /\ UNCHANGED <<votes, nextSession>>
           ELSE LET out == processVotes(events[e], e, votes, batch, 1, uuidv4,
                                        groupPassword)
                IN  /\ votes' = out.votes
                    /\ nextSession' = nextSession + 1
                    /\ resp' = Reply("submitVote", out.status, req, out.data)

(***************************************************************************)
(* submitVote as the event loop runs it: the handler gives up control at   *)
(* each await (Event.findById, Vote.findOne, vote.save) and other requests *)
(* are served in between.  flight is the submission that is under way.     *)
(***************************************************************************)
NoFlight == [pc |-> "none"]

\* The checks of one loop iteration that come before Vote.findOne, made on the
\* event document the handler loaded: the rejection, or status 0 for none.
entryRejection(ev, entry, groupPassword) ==
    IF entry.projectId \notin IdsOf(ev.projects)
    THEN [status |-> 400, data |-> [kind |-> "Project not found", id |-> entry.projectId]]
    ELSE IF entry.groupId \notin IdsOf(ev.groups)
    THEN [status |-> 400, data |-> [kind |-> "Group not found", id |-> entry.groupId]]
    ELSE IF passwordRejected(findGroup(ev, entry.groupId), groupPassword)
    THEN [status |-> 403, data |-> [kind |-> "Invalid group password"]]
    ELSE IF rejectedKeys(ev, entry.scores) # {}
    THEN LET c == CHOOSE x \in rejectedKeys(ev, entry.scores) : TRUE
         IN  IF ~hasCriterion(ev, c)
             THEN [status |-> 400, data |-> [kind |-> "Criterion not found", criterion |-> c]]
             ELSE [status |-> 400, data |-> [kind |-> "Score out of range", criterion |-> c]]
    ELSE [status |-> 0, data |-> [kind |-> "none"]]

\* The handler runs on from the top of iteration fl.k to its next await or to its
\* response.
enterEntry(fl) ==
    IF fl.k > Len(fl.batch)
    THEN /\ resp' = Reply("submitVote", 201, fl.req,
                          [kind |-> "Votes submitted successfully", sessionId |-> fl.sid,
                           votesCount |-> Len(fl.batch)])
         /\ flight' = NoFlight
    ELSE LET rej == entryRejection(fl.snapshot, fl.batch[fl.k], fl.groupPassword)
         IN  IF rej.status # 0
             THEN resp' = Reply("submitVote", rej.status, fl.req, rej.data)
                  /\ flight' = NoFlight
             ELSE flight' = [fl EXCEPT !.pc = "findOne"] /\ UNCHANGED resp

\* From the request to the first Vote.findOne: validation, await Event.findById,
\* the voting gate, the session id, the checks of the first entry.
submitVote_findById(e, batch, groupPassword) ==
    /\ flight = NoFlight
    /\ UNCHANGED <<events, votes, now, nextEventId, nextOid>>
    /\ LET req == [event |-> e, votes |-> batch, groupPassword |-> groupPassword]
       IN  IF Len(batch) = 0
           THEN /\ resp' = Reply("submitVote", 400, req, [kind |-> "Validation errors"])
                /\ UNCHANGED <<flight, nextSession>>
           ELSE IF ~Exists(e) \/ ~events[e].isActive
           THEN /\ resp' = Reply("submitVote", 404, req,
                                 [kind |-> "Event not found or inactive"])
                /\ UNCHANGED <<flight, nextSession>>
           ELSE IF ~votingOpen(events[e], now)
           THEN /\ resp' = Reply("submitVote", 403, req,
                                 [kind |-> "Voting is not open for this event."])
                /\ UNCHANGED <<flight, nextSession>>
           ELSE /\ nextSession' = nextSession + 1
                /\ enterEntry([pc |-> "findById", event |-> e, snapshot |-> events[e],
                               batch |-> batch, k |-> 1, sid |-> uuidv4,
                               groupPassword |-> groupPassword, req |-> req])

\* await Vote.findOne({ event, voterSessionId, project }) on the store as it is now.
submitVote_findOne ==
    /\ flight.pc = "findOne"
    /\ UNCHANGED <<events, votes, now, nextEventId, nextOid, nextSession>>
    /\ IF existingVote(votes, flight.event, flight.sid, flight.batch[flight.k].projectId)
       THEN /\ resp' = Reply("submitVote", 400, flight.req,
                             [kind |-> "Vote already submitted",
                              id |-> flight.batch[flight.k].projectId])
            /\ flight' = NoFlight
       ELSE flight' = [flight EXCEPT !.pc = "save"] /\ UNCHANGED resp

\* await vote.save() on the store as it is now, then on to the next iteration.
submitVote_save ==
    /\ flight.pc = "save"
    /\ UNCHANGED <<events, now, nextEventId, nextOid, nextSession>>
    /\ LET entry == flight.batch[flight.k]
           vote == [_id |-> <<flight.sid, entry.projectId>>,
                    event |-> flight.event,
                    project |-> entry.projectId,
                    group |-> entry.groupId,
                    scores |-> entry.scores,
                    voterSessionId |-> flight.sid]
       IN  IF ~voteSchemaValid(entry.scores) \/ uniqueIndexViolated(votes, vote)
           THEN /\ resp' = Reply("submitVote", 500, flight.req, [kind |-> "Server error"])
                /\ flight' = NoFlight
                /\ UNCHANGED votes
           ELSE /\ votes' = votes \cup {vote}
                /\ enterEntry([flight EXCEPT !.k = @ + 1])

(***************************************************************************)
(* Voting controller: results.                                             *)
(***************************************************************************)
votesOf(e) == {v \in votes : v.event = e}

NoWeights == [g \in {} |-> 0]

resultsData(e, groupWeights) ==
    [results |-> calculateResults(events[e], votesOf(e), groupWeights),
     totalVotes |-> Cardinality(votesOf(e)),
     totalVoters |-> Cardinality({v.voterSessionId : v \in votesOf(e)})]

getResults(u, e) ==
    /\ UNCHANGED <<events, votes, now, nextEventId, nextOid, nextSession>>
    /\ LET req == [user |-> u, event |-> e]
           gate == ownerGate(u, e)
       IN  IF gate = 404 THEN resp' = Reply("getResults", 404, req, "Event not found")
           ELSE IF gate = 403
           THEN resp' = Reply("getResults", 403, req, "Not authorized to view results")
           ELSE resp' = Reply("getResults", 200, req, resultsData(e, NoWeights))

OverrideValues == {0 - 10, 0, 30}

\* The weights query parameter: absent, not JSON, or a JSON mapping of group ids.
WeightsParams(e) ==
    {[kind |-> "absent", map |-> NoWeights], [kind |-> "invalid", map |-> NoWeights]}
    \cup {[kind |-> "json", map |-> m] :
             m \in UNION {[S -> OverrideValues] :
                            S \in SUBSET (IF Exists(e) THEN IdsOf(events[e].groups) ELSE {})}}

\* A public results handler that stores the override weights in the event.
getPublicResults_SavesWeights(e, weights) ==
    /\ UNCHANGED <<votes, now, nextEventId, nextOid, nextSession>>
    /\ LET req == [event |-> e, weights |-> weights]
       IN  IF ~Exists(e) \/ ~events[e].isActive
           THEN /\ resp' = Reply("getPublicResults", 404, req, "Event not found or inactive")
                /\ UNCHANGED events
           ELSE IF weights.kind = "invalid"
           THEN /\ resp' = Reply("getPublicResults", 400, req, "Invalid weights parameter")
                /\ UNCHANGED events
           ELSE /\ resp' = Reply("getPublicResults", 200, req, resultsData(e, weights.map))
                /\ LET gs == events[e].groups
                   IN  events' = [events EXCEPT ![e].groups =
                          [k \in DOMAIN gs |->
                             [gs[k] EXCEPT !.weight = effectiveWeight(gs[k], weights.map)]]]

getPublicResults(e, weights) ==
    /\ UNCHANGED <<events, votes, now, nextEventId, nextOid, nextSession>>
    /\ LET req == [event |-> e, weights |-> weights]
       IN  IF ~Exists(e) \/ ~events[e].isActive
           THEN resp' = Reply("getPublicResults", 404, req, "Event not found or inactive")
           ELSE IF weights.kind = "invalid"
           THEN resp' = Reply("getPublicResults", 400, req, "Invalid weights parameter")
           ELSE resp' = Reply("getPublicResults", 200, req, resultsData(e, weights.map))

(***************************************************************************)
(* The request cycle: a handler runs to completion and its response is     *)
(* sent before the next request is taken up.                               *)
(***************************************************************************)
NoResponse == Reply("none", 0, "none", "none")

Idle == resp = NoResponse

ResponseSent == ~Idle /\ resp' = NoResponse /\ UNCHANGED now /\ storeUnchanged

Tick == now < MaxTime /\ now' = now + 1 /\ UNCHANGED resp /\ storeUnchanged

AnyOid == 0..MaxOids

(***************************************************************************)
(* Spec: the owner's management of one event store, with votes coming in.  *)
(***************************************************************************)
Owners == {"u1"}

AdminGroupInputs ==
    { [name |-> "Public", weight |-> NoWeight, password |-> ""],
      [name |-> "Public", weight |-> 101, password |-> " pw"] }

AdminCriteriaInputs ==
    { [name |-> "Execution", maxScore |-> 5], [name |-> "Execution", maxScore |-> 0] }

AdminUpdateBodies ==
    LET body(v, a, o) == [valid |-> v, window |-> <<1, 1>>, isActive |-> a, isVotingOpen |-> o]
    IN  {body(TRUE, "false", Absent), body(TRUE, Absent, "null"), body(FALSE, "false", "null")}

AdminEntries(e) ==
    [projectId : IF Exists(e) THEN IdsOf(events[e].projects) ELSE {},
     groupId : IF Exists(e) THEN IdsOf(events[e].groups) ELSE {},
     scores : {[Creativity |-> 8, Execution |-> 6]}]

Init ==
    /\ events = [x \in {} |-> 0]
    /\ votes = {}
    /\ now = 1
    /\ nextEventId = 1
    /\ nextOid = 1
    /\ nextSession = 1
    /\ resp = NoResponse
    /\ flight = NoFlight

\* createEvent bodies: one that fails validation, one with empty lists, one with a
\* group, a project and a criterion.
AdminCreateBodies ==
    {b \in CreateBodies :
        \/ ~b.valid /\ b.groups = <<>> /\ b.projects = <<>> /\ b.criteria = <<>>
        \/ b.valid /\ b.groups = <<>> /\ b.projects = <<>> /\ b.criteria = <<>>
        \/ b.valid /\ b.groups # <<>> /\ b.projects # <<>> /\ b.criteria # <<>>}

\* createEvent bodies that pass the route's validation and carry a group weight or
\* a criterion maxScore outside the schema's range.
OutOfRangeCreateBodies ==
    LET body(w, m) == [valid |-> TRUE, window |-> <<1, 1>>,
                       groups |-> <<[name |-> "Judges", weight |-> w, password |-> ""]>>,
                       projects |-> <<>>,
                       criteria |-> <<[name |-> "Creativity", maxScore |-> m]>>,
                       voteCode |-> "AB12"]
    IN  {body(MaxWeight + 1, DefaultMaxScore), body(DefaultWeight, MinMaxScore - 1),
         body(DefaultWeight, MaxMaxScore + 1)}

\* The counters are capped: no id beyond MaxOids, no event beyond MaxEvents, no
\* criteria list beyond MaxCriteria, no voter session beyond MaxAdminVotes.
CanCreate(body) ==
    /\ nextEventId <= MaxEvents
    /\ nextOid + Len(body.groups) + Len(body.projects) <= MaxOids + 1

CanAddCriteria == \A x \in DOMAIN events : Len(events[x].criteria) < MaxCriteria

Request ==
    \/ \E u \in Owners, body \in AdminCreateBodies \cup OutOfRangeCreateBodies :
          CanCreate(body) /\ createEvent(u, body)
    \/ \E u \in Users, e \in EventIdInputs : getEvent(u, e)
    \/ \E u \in Users, e \in EventIdInputs, body \in AdminUpdateBodies :
          updateEvent(u, e, body)
    \/ \E u \in Users, e \in EventIdInputs : openVoting(u, e)
    \/ \E u \in Users, e \in EventIdInputs : closeVoting(u, e)
    \/ \E u \in Users, e \in EventIdInputs, body \in AdminGroupInputs :
          nextOid <= MaxOids /\ addGroup(u, e, body)
    \/ \E u \in Users, e \in EventIdInputs, body \in ProjectInputs :
          nextOid <= MaxOids /\ addProject(u, e, body)
    \/ \E u \in Users, e \in EventIdInputs, body \in AdminCriteriaInputs :
          CanAddCriteria /\ addCriteria(u, e, body)
    \/ \E u \in Users, e \in EventIdInputs, i \in {NaN, 0, MaxCriteria + 1} :
          removeCriteria(u, e, i)
    \/ \E u \in Users, e \in EventIdInputs : deleteEvent(u, e)
    \/ \E u \in Users, e \in EventIdInputs, g \in AnyOid : removeGroup(u, e, g)
    \/ \E u \in Users, e \in EventIdInputs, p \in AnyOid : removeProject(u, e, p)
    \/ \E u \in Users, e \in EventIdInputs, g \in AnyOid, w \in {0, 101} :
          updateGroupWeight(u, e, g, w)
    \/ \E code \in VoteCodeInputs : getEventByVoteCode(code)
    \/ \E e \in EventIdInputs : \E entry \in AdminEntries(e) :
          nextSession <= MaxAdminVotes /\ submitVote(e, <<entry>>, "pw")
    \/ \E u \in Users, e \in EventIdInputs : getResults(u, e)
    \/ \E e \in EventIdInputs : getPublicResults(e, [kind |-> "absent", map |-> NoWeights])

Next ==
    \/ Idle /\ Request /\ UNCHANGED flight
    \/ ResponseSent /\ UNCHANGED flight

Spec == Init /\ [][Next]_vars

(***************************************************************************)
(* SpecIntake: vote intake on one configured event, as the clock runs.     *)
(***************************************************************************)
intakeEvent(active, override) ==
    [owner |-> "u1",
     isActive |-> active,
     isVotingOpen |-> override,
     start |-> 1,
     end |-> 1,
     voteCode |-> "AB12",
     groups |-> << [_id |-> 1, name |-> "Judges", weight |-> 70, password |-> "pw"],
                   [_id |-> 2, name |-> "Public", weight |-> DefaultWeight,
                    password |-> ""] >>,
     projects |-> << [_id |-> 3, name |-> "Alpha"], [_id |-> 4, name |-> "Beta"] >>,
     criteria |-> defaultCriteria]

\* What voters send as entries: well-formed ones for the protected and the open
\* group and for both projects, and ones with an id the event does not hold or
\* with each kind of score sheet that step 4 of the intake looks at.
IntakeEntries ==
    LET entry(p, g, sc) == [projectId |-> p, groupId |-> g, scores |-> sc]
        good == [Creativity |-> 8, Execution |-> 6]
    IN  {entry(3, 1, good), entry(3, 2, good), entry(4, 2, good),
         entry(BogusId, 2, good), entry(3, BogusId, good),
         entry(3, 1, [Creativity |-> 11])}
        \cup {entry(3, 2, sc) : sc \in ScoreInputs}

InitIntake ==
    /\ events \in {[x \in {} |-> 0]}
                  \cup {(1 :> intakeEvent(a, o)) : a \in BOOLEAN, o \in Overrides}
    /\ votes = {}
    /\ now = 0
    /\ nextEventId = 2
    /\ nextOid = 5
    /\ nextSession = 1
    /\ resp = NoResponse
    /\ flight = NoFlight

IntakeRequest ==
    \E pw \in GroupPasswordInputs, batch \in SeqsUpTo(IntakeEntries, MaxBatch) :
        nextSession <= MaxSessions /\ submitVote(1, batch, pw)

NextIntake ==
    \/ Idle /\ (Tick \/ IntakeRequest) /\ UNCHANGED flight
    \/ ResponseSent /\ UNCHANGED flight

SpecIntake == InitIntake /\ [][NextIntake]_vars

(***************************************************************************)
(* SpecStatus: the voting-window evaluator on every window and override.   *)
(***************************************************************************)
InitStatus ==
    /\ events \in {(1 :> [intakeEvent(TRUE, o) EXCEPT !.start = s, !.end = c]) :
                      o \in Overrides, s \in Times \cup {InvalidDate},
                      c \in Times \cup {InvalidDate}}
    /\ votes = {}
    /\ now \in Times
    /\ nextEventId = 2
    /\ nextOid = 5
    /\ nextSession = 1
    /\ resp = NoResponse
    /\ flight = NoFlight

\* Reading the votingStatus virtual of a loaded event document.
getVotingStatus(e) ==
    /\ Exists(e)
    /\ resp' = Reply("votingStatus", 200, [event |-> e], votingStatus(events[e], now))
    /\ UNCHANGED now
    /\ storeUnchanged

NextStatus ==
    \/ Idle /\ getVotingStatus(1) /\ UNCHANGED flight
    \/ ResponseSent /\ UNCHANGED flight

SpecStatus == InitStatus /\ [][NextStatus]_vars

(***************************************************************************)
(* SpecResults: the results endpoints on stores of two groups, two         *)
(* projects and up to MaxCalcVotes votes of two voter sessions.            *)
(***************************************************************************)
CalcWeights == {0, 70}
CalcScores == {[Creativity |-> 8, Execution |-> 6], [Creativity |-> 10], [Creativity |-> 4]}
CalcSessions == {1, 2}
CalcProjects == << [_id |-> 3, name |-> "Alpha"], [_id |-> 4, name |-> "Beta"] >>

calcGroup(id, name, w) == [_id |-> id, name |-> name, weight |-> w, password |-> ""]

\* One group, two groups of different names, two groups of the same name.
CalcGroupLists ==
    {<<calcGroup(1, "Judges", w)>> : w \in CalcWeights}
    \cup {<<calcGroup(1, "Judges", w1), calcGroup(2, n, w2)>> :
             n \in {"Public", "Judges"}, w1 \in CalcWeights, w2 \in CalcWeights}

calcEvent(groups) ==
    [owner |-> "u1",
     isActive |-> TRUE,
     isVotingOpen |-> "null",
     start |-> 1,
     end |-> 1,
     voteCode |-> "AB12",
     groups |-> groups,
     projects |-> CalcProjects,
     criteria |-> defaultCriteria]

\* A Vote store of the event: for each (session, project) at most one vote, cast in
\* one of the event's groups with one of the score sheets.
CalcVote(sid, pid, gid, scores) ==
    [_id |-> <<sid, pid>>, event |-> 1, project |-> pid, group |-> gid,
     scores |-> scores, voterSessionId |-> sid]

CalcSlots == CalcSessions \X IdsOf(CalcProjects)
NoVote == <<>>

CalcStores(groups) ==
    LET choices == {NoVote} \cup (IdsOf(groups) \X CalcScores)
        cast(f) == {slot \in CalcSlots : f[slot] # NoVote}
    IN  {{CalcVote(slot[1], slot[2], f[slot][1], f[slot][2]) : slot \in cast(f)} :
            f \in {g \in [CalcSlots -> choices] : Cardinality(cast(g)) <= MaxCalcVotes}}

InitResults ==
    /\ \E groups \in CalcGroupLists :
          /\ events = (1 :> calcEvent(groups))
          /\ votes \in CalcStores(groups)
    /\ now = 1
    /\ nextEventId = 2
    /\ nextOid = 5
    /\ nextSession = 3
    /\ resp = NoResponse
    /\ flight = NoFlight

ResultsRequest ==
    \/ \E u \in Users : getResults(u, 1)
    \/ \E w \in WeightsParams(1) : getPublicResults(1, w)

NextResults ==
    \/ Idle /\ ResultsRequest /\ UNCHANGED flight
    \/ ResponseSent /\ UNCHANGED flight

SpecResults == InitResults /\ [][NextResults]_vars

(***************************************************************************)
(* SpecCascade: removals and deletions on two events that already have     *)
(* votes in several groups.                                                *)
(***************************************************************************)
otherEvent ==
    [owner |-> "u1",
     isActive |-> TRUE,
     isVotingOpen |-> "null",
     start |-> 1,
     end |-> 1,
     voteCode |-> "CD34",
     groups |-> << [_id |-> 5, name |-> "Judges", weight |-> DefaultWeight, password |-> ""] >>,
     projects |-> << [_id |-> 6, name |-> "Gamma"] >>,
     criteria |-> defaultCriteria]

\* The votes of one earlier voter session: at most one for each project, cast in a
\* group of the project's event.
CascadeVote(e, pid, gid) ==
    [_id |-> <<MaxSessions - 1, pid>>, event |-> e, project |-> pid, group |-> gid,
     scores |-> [Creativity |-> 8, Execution |-> 6], voterSessionId |-> MaxSessions - 1]

CascadeVotes ==
    {CascadeVote(1, pid, gid) : pid \in {3, 4}, gid \in {1, 2}} \cup {CascadeVote(2, 6, 5)}

CascadeStores ==
    {S \in SUBSET CascadeVotes : \A v, w \in S : v.project = w.project => v = w}

InitCascade ==
    /\ events = (1 :> intakeEvent(TRUE, "true")) @@ (2 :> otherEvent)
    /\ votes \in CascadeStores
    /\ now = 1
    /\ nextEventId = 3
    /\ nextOid = 7
    /\ nextSession = MaxSessions
    /\ resp = NoResponse
    /\ flight = NoFlight

CascadeRequest ==
    \/ \E u \in Users, e \in {1, 2}, g \in {1, 2, 5} : removeGroup(u, e, g)
    \/ \E e \in {1, 2}, p \in {3, 6} : removeProject("u1", e, p)
    \/ \E u \in Users, e \in {1, 2} : deleteEvent(u, e)
    \/ removeCriteria("u1", 1, 0)
    \/ updateEvent("u1", 1, [valid |-> TRUE, window |-> <<1, 1>>, isActive |-> Absent,
                             isVotingOpen |-> "null"])
    \/ openVoting("u1", 1)
    \/ closeVoting("u1", 1)
    \/ \E g \in {1, 5} : updateGroupWeight("u1", 1, g, 0)
    \/ /\ nextSession <= MaxSessions
       /\ submitVote(1, <<[projectId |-> 3, groupId |-> 2,
                            scores |-> [Creativity |-> 8, Execution |-> 6]]>>, Absent)

NextCascade ==
    \/ Idle /\ CascadeRequest /\ UNCHANGED flight
    \/ ResponseSent /\ UNCHANGED flight

SpecCascade == InitCascade /\ [][NextCascade]_vars

(***************************************************************************)
(* SpecRace: a submission under way while the owner closes or reopens      *)
(* voting or removes a group.                                              *)
(***************************************************************************)
RaceEntries ==
    {[projectId |-> p, groupId |-> g, scores |-> [Creativity |-> 8, Execution |-> 6]] :
        p \in {3, 4}, g \in {1, 2}}

RaceBatches ==
    {<<x>> : x \in RaceEntries}
    \cup {<<x, y>> : x \in {z \in RaceEntries : z.projectId = 3},
                      y \in {z \in RaceEntries : z.projectId = 4}}

InitRace ==
    /\ \E o \in {"true", "null"} : events = (1 :> intakeEvent(TRUE, o))
    /\ votes = {}
    /\ now = 1
    /\ nextEventId = 2
    /\ nextOid = 5
    /\ nextSession = 1
    /\ resp = NoResponse
    /\ flight = NoFlight

RaceRequest ==
    \/ closeVoting("u1", 1)
    \/ openVoting("u1", 1)
    \/ updateEvent("u1", 1, [valid |-> TRUE, window |-> <<1, 1>>, isActive |-> Absent,
                             isVotingOpen |-> "false"])
    \/ \E g \in {1, 2} : removeGroup("u1", 1, g)

NextRace ==
    \/ Idle /\ RaceRequest /\ UNCHANGED flight
    \/ ResponseSent /\ UNCHANGED flight
    \/ /\ Idle
       /\ nextSession <= MaxSessions
       /\ \E batch \in RaceBatches : submitVote_findById(1, batch, "pw")
    \/ Idle /\ submitVote_findOne
    \/ Idle /\ submitVote_save

SpecRace == InitRace /\ [][NextRace]_vars

(***************************************************************************)
(* Frontend: the API client and the two pages that read the voting status. *)
(***************************************************************************)
\* obj.name in JavaScript: a property the object does not carry reads undefined.
field(obj, name) == IF name \in DOMAIN obj THEN obj[name] ELSE Absent

\* id: group._id || group.id, weight: group.weight || 50, password,
\* hasPassword: group.hasPassword || !!group.password
transformGroup(group) ==
    [id |-> IF "_id" \in DOMAIN group THEN group._id ELSE group.id,
     name |-> group.name,
     weight |-> IF group.weight = 0 THEN DefaultWeight ELSE group.weight,
     password |-> field(group, "password"),
     hasPassword |-> \/ "hasPassword" \in DOMAIN group /\ group.hasPassword
                     \/ field(group, "password") \notin {Absent, ""}]

transformProject(project) ==
    [id |-> IF "_id" \in DOMAIN project THEN project._id ELSE project.id,
     name |-> project.name]

\* The Event the pages hold: the fields transformEvent copies and no others.
\* fallbackId stands for the id of the document, which the stored record of the
\* model keeps as its key.
transformEvent(data, fallbackId) ==
    [id |-> IF "id" \in DOMAIN data THEN data.id ELSE fallbackId,
     start |-> data.start,
     end |-> data.end,
     ownerId |-> field(data, "owner"),
     voteCode |-> data.voteCode,
     groups |-> [i \in DOMAIN data.groups |-> transformGroup(data.groups[i])],
     projects |-> [i \in DOMAIN data.projects |-> transformProject(data.projects[i])],
     criteria |-> data.criteria]

\* computeStatus of the pages, on the Event the page holds.
computeStatus(event, t) ==
    IF field(event, "isVotingOpen") = "true" THEN "open"
    ELSE IF field(event, "isVotingOpen") = "false" THEN "closed"
    ELSE IF DateLt(t, event.start) THEN "upcoming"
    ELSE IF DateLe(event.start, t) /\ DateLe(t, event.end) THEN "open"
    ELSE "closed"

\* Loading the voting page: getEventByVoteCode, setEvent, computeStatus.
VotingPage(code) ==
    /\ UNCHANGED <<events, votes, now, nextEventId, nextOid, nextSession>>
    /\ LET req == [voteCode |-> code]
           found == findByVoteCode(code)
       IN  IF found = {}
           THEN resp' = Reply("VotingPage", 404, req, "Invalid voting code.")
           ELSE LET e == CHOOSE x \in found : TRUE
                    event == transformEvent(publicEvent(e, events[e]), e)
                IN  resp' = Reply("VotingPage", 200, req,
                                  [id |-> event.id,
                                   votingStatus |-> computeStatus(event, now)])

\* The condition of the auto-open effect on a freshly mounted page
\* (triedOpenVoting.current is false).
autoOpenDue(event, u, t) ==
    /\ event.ownerId = u
    /\ DateLe(event.start, t)
    /\ DateLe(t, event.end)
    /\ field(event, "isVotingOpen") # "true"

\* Loading the event detail page as user u: fetchEvent, then the auto-open
\* effect, which posts open-voting when its condition holds.
EventDetailPage(u, e) ==
    IF ownerGate(u, e) = 200 /\ autoOpenDue(transformEvent(events[e], e), u, now)
    THEN openVoting(u, e)
    ELSE getEvent(u, e)

(***************************************************************************)
(* SpecPages: the pages and the manual close control on one event of every *)
(* window and override, as the clock runs.                                 *)
(***************************************************************************)
InitPages ==
    /\ events \in {(1 :> [intakeEvent(TRUE, o) EXCEPT !.start = s, !.end = c]) :
                      o \in Overrides, s \in Times, c \in Times}
    /\ votes = {}
    /\ now = 0
    /\ nextEventId = 2
    /\ nextOid = 5
    /\ nextSession = 1
    /\ resp = NoResponse
    /\ flight = NoFlight

PagesRequest ==
    \/ \E code \in {"ab12", "ZZ99"} : VotingPage(code)
    \/ \E u \in Users : EventDetailPage(u, 1)
    \/ closeVoting("u1", 1)

NextPages ==
    \/ Idle /\ (Tick \/ PagesRequest) /\ UNCHANGED flight
    \/ ResponseSent /\ UNCHANGED flight

SpecPages == InitPages /\ [][NextPages]_vars

(***************************************************************************)
(* Properties of vote intake (SpecIntake).                                 *)
(***************************************************************************)
\* A step in which submitVote answers a request that passed the route's
\* validation (a non-empty votes array).
SubmitStep == resp.op = "none" /\ resp'.op = "submitVote" /\ Len(resp'.req.votes) > 0

Live(e) == Exists(e) /\ events[e].isActive

GateOpen(e) == Live(e) /\ votingStatus(events[e], now) = "open"

GroupOf(ev, gid) == CHOOSE g \in Range(ev.groups) : g._id = gid

PasswordOk(ev, gid, pw) == GroupOf(ev, gid).password \in {"", pw}

ScoresFit(ev, scores) ==
    \A c \in DOMAIN scores :
        \E crit \in Range(ev.criteria) :
            crit.name = c /\ 1 <= scores[c] /\ scores[c] <= crit.maxScore

Resolves(ev, entry) ==
    entry.projectId \in IdsOf(ev.projects) /\ entry.groupId \in IdsOf(ev.groups)

\* Entry i of the batch is stored: it resolves, passes the password and the score
\* checks, and no earlier entry names its project.
Stored(ev, batch, pw, i) ==
    /\ Resolves(ev, batch[i])
    /\ PasswordOk(ev, batch[i].groupId, pw)
    /\ ScoresFit(ev, batch[i].scores)
    /\ \A j \in 1..(i - 1) : batch[j].projectId # batch[i].projectId

\* Processing gets as far as entry k.
Reaches(e, batch, pw, k) ==
    GateOpen(e) /\ \A i \in 1..(k - 1) : Stored(events[e], batch, pw, i)

\* C1: submitVote stores a Vote only for an event that exists, is active and whose
\* votingStatus is "open"; a missing or inactive event is answered 404, an
\* upcoming or closed one 403, and either way the Vote store stays as it was.
C1_VotesOnlyWhileOpen ==
    [][SubmitStep =>
         LET e == resp'.req.event
         IN  /\ votes' # votes => GateOpen(e)
             /\ ~Live(e) => resp'.status = 404 /\ votes' = votes
             /\ (Live(e) /\ votingStatus(events[e], now) \in {"upcoming", "closed"})
                    => resp'.status = 403 /\ votes' = votes]_vars

\* A well-formed batch refused because the active event is forced closed inside
\* its window.
C1_Witness ==
    /\ resp.op = "submitVote"
    /\ resp.status = 403
    /\ Exists(1)
    /\ events[1].isActive
    /\ events[1].isVotingOpen = "false"
    /\ now = events[1].start
    /\ votes = {}
    /\ Stored(events[1], resp.req.votes, resp.req.groupPassword, 1)

\* C2: every score key of a stored Vote names a criterion of its event and its
\* value lies in 1..maxScore of that criterion; the first entry whose scores do
\* not fit is answered 400 naming the criterion (and its bound when the value is
\* out of range) and is not stored.
C2_ScoresFitCriteria ==
    [][SubmitStep =>
         LET e == resp'.req.event
             batch == resp'.req.votes
             pw == resp'.req.groupPassword
         IN  /\ \A v \in votes' \ votes : ScoresFit(events[v.event], v.scores)
             /\ \A k \in DOMAIN batch :
                   ( /\ Reaches(e, batch, pw, k)
                     /\ Resolves(events[e], batch[k])
                     /\ PasswordOk(events[e], batch[k].groupId, pw)
                     /\ ~ScoresFit(events[e], batch[k].scores) )
                   => /\ resp'.status = 400
                      /\ resp'.data.kind \in {"Criterion not found", "Score out of range"}
                      /\ LET c == resp'.data.criterion
                             named == {crit \in Range(events[e].criteria) : crit.name = c}
                         IN  /\ c \in DOMAIN batch[k].scores
                             /\ resp'.data.kind = "Criterion not found" => named = {}
                             /\ resp'.data.kind = "Score out of range"
                                   => \E crit \in named :
                                         /\ resp'.data.min = 1
                                         /\ resp'.data.max = crit.maxScore
                                         /\ \/ batch[k].scores[c] < 1
                                            \/ batch[k].scores[c] > crit.maxScore
                      /\ \A v \in votes' \ votes : v.scores # batch[k].scores]_vars

\* A score of 11 against a maxScore of 10 refused with the bound in the message.
C2_Witness ==
    /\ resp.op = "submitVote"
    /\ resp.status = 400
    /\ resp.data.kind = "Score out of range"
    /\ resp.data.criterion = "Creativity"
    /\ resp.data.max = 10
    /\ resp.req.votes[1].scores = [Creativity |-> 11]
    /\ votes = {}

\* C3: no Vote is stored for a group with a password unless the request's
\* groupPassword equals it exactly; an entry for such a group with a different or
\* absent groupPassword is answered 403.
C3_PasswordGate ==
    [][SubmitStep =>
         LET e == resp'.req.event
             batch == resp'.req.votes
             pw == resp'.req.groupPassword
         IN  /\ \A v \in votes' \ votes :
                   GroupOf(events[v.event], v.group).password # ""
                       => pw = GroupOf(events[v.event], v.group).password
             /\ \A k \in DOMAIN batch :
                   ( /\ Reaches(e, batch, pw, k)
                     /\ Resolves(events[e], batch[k])
                     /\ ~PasswordOk(events[e], batch[k].groupId, pw) )
                   => /\ resp'.status = 403
                      /\ resp'.data.kind = "Invalid group password"
                      /\ \A v \in votes' \ votes : v.group # batch[k].groupId]_vars

\* The stored password with a leading blank is not the stored password.
C3_Witness ==
    /\ resp.op = "submitVote"
    /\ resp.status = 403
    /\ resp.data.kind = "Invalid group password"
    /\ resp.req.groupPassword = " pw"
    /\ GroupOf(events[1], resp.req.votes[1].groupId).password = "pw"
    /\ votes = {}

\* C4: the Vote store never holds two Votes with the same event, voterSessionId and
\* project; an entry naming the project of an earlier entry of its batch is
\* answered 400 "already submitted" and the one Vote stays.
C4_OneVotePerTriple ==
    [][ /\ \A v1, v2 \in votes' :
              ( /\ v1.event = v2.event
                /\ v1.voterSessionId = v2.voterSessionId
                /\ v1.project = v2.project ) => v1 = v2
        /\ SubmitStep =>
              LET e == resp'.req.event
                  batch == resp'.req.votes
                  pw == resp'.req.groupPassword
              IN  \A k \in DOMAIN batch :
                    ( /\ Reaches(e, batch, pw, k)
                      /\ Resolves(events[e], batch[k])
                      /\ PasswordOk(events[e], batch[k].groupId, pw)
                      /\ ScoresFit(events[e], batch[k].scores)
                      /\ \E j \in 1..(k - 1) : batch[j].projectId = batch[k].projectId )
                    => /\ resp'.status = 400
                       /\ resp'.data.kind = "Vote already submitted"
                       /\ Cardinality({v \in votes' \ votes :
                                          v.project = batch[k].projectId}) = 1 ]_vars

\* A batch naming one project twice: the first entry is stored, the second refused.
C4_Witness ==
    /\ resp.op = "submitVote"
    /\ resp.status = 400
    /\ resp.data.kind = "Vote already submitted"
    /\ Len(resp.req.votes) = 2
    /\ resp.req.votes[1].projectId = resp.req.votes[2].projectId
    /\ Cardinality(votes) = 1

\* The entries of a batch that are not stored, and the entry as a stored Vote
\* shows it.
Failing(ev, batch, pw) == {k \in DOMAIN batch : ~Stored(ev, batch, pw, k)}

EntryOf(v) == [projectId |-> v.project, groupId |-> v.group, scores |-> v.scores]

\* C11: whenever submitVote answers with an error, the Vote store is what it was
\* before the submission.
C11_NoPartialCommit ==
    [][(resp.op = "none" /\ resp'.op = "submitVote" /\ resp'.status # 201)
          => votes' = votes]_vars

\* C12: a batch is processed in input order up to its first failing entry k: the
\* response is an error, the votes of the entries 1..k-1 and no others are added
\* to the Vote store, and they are still there once the response has been sent.
C12_StopsAtFirstFailure ==
    [][ /\ SubmitStep =>
              LET e == resp'.req.event
                  batch == resp'.req.votes
                  pw == resp'.req.groupPassword
              IN  (GateOpen(e) /\ Failing(events[e], batch, pw) # {}) =>
                     LET k == CHOOSE x \in Failing(events[e], batch, pw) :
                                 \A y \in Failing(events[e], batch, pw) : x <= y
                         new == votes' \ votes
                     IN  /\ resp'.status # 201
                         /\ votes \subseteq votes'
                         /\ Cardinality(new) = k - 1
                         /\ {EntryOf(v) : v \in new} = {batch[i] : i \in 1..(k - 1)}
        /\ (resp.op = "submitVote" /\ resp'.op = "none") => votes' = votes ]_vars

\* The second entry of a batch is refused for its score; the vote of the first
\* entry is in the Vote store after the error.
C12_Witness ==
    /\ resp.op = "submitVote"
    /\ resp.status = 400
    /\ resp.data.kind = "Score out of range"
    /\ Len(resp.req.votes) = 2
    /\ \E v \in votes : votes = {v} /\ EntryOf(v) = resp.req.votes[1]

\* C13: an entry whose scores mapping is empty is answered 400 and no Vote with
\* an empty scores mapping is stored.
C13_EmptyScoresRejected ==
    [][SubmitStep =>
         LET e == resp'.req.event
             batch == resp'.req.votes
             pw == resp'.req.groupPassword
         IN  /\ \A v \in votes' \ votes : DOMAIN v.scores # {}
             /\ \A k \in DOMAIN batch :
                   ( /\ Reaches(e, batch, pw, k)
                     /\ Resolves(events[e], batch[k])
                     /\ PasswordOk(events[e], batch[k].groupId, pw)
                     /\ DOMAIN batch[k].scores = {} )
                   => resp'.status = 400]_vars

\* C14: the Votes stored by one submitVote call carry one voterSessionId, and it
\* is the voterSessionId of no Vote stored before the call.
C14_FreshSessionPerBatch ==
    [][SubmitStep =>
         LET new == votes' \ votes
         IN  /\ \A v1, v2 \in new : v1.voterSessionId = v2.voterSessionId
             /\ \A v \in new : \A w \in votes : v.voterSessionId # w.voterSessionId]_vars

\* A batch of two entries stored under one voterSessionId next to the vote of an
\* earlier submission that carries another.
C14_Witness ==
    /\ resp.op = "submitVote"
    /\ resp.status = 201
    /\ Len(resp.req.votes) = 2
    /\ \E v1, v2, w \in votes :
          /\ v1 # v2
          /\ v1.voterSessionId = v2.voterSessionId
          /\ w.voterSessionId # v1.voterSessionId
          /\ w.project = v1.project

\* C23 as stated: no submission is ever answered "Vote already submitted".
C23_LookupAlwaysFalse ==
    [][SubmitStep => resp'.data.kind # "Vote already submitted"]_vars

\* C23: the lookup of an existing Vote never finds a Vote of an earlier
\* submission; it finds the Vote of an earlier entry of the same batch, so a
\* submission is answered "Vote already submitted" exactly at an entry that names
\* the project of an earlier entry of its batch, all entries before it having
\* been stored.
C23_DuplicateOnlyWithinBatch ==
    [][SubmitStep =>
         LET e == resp'.req.event
             batch == resp'.req.votes
             pw == resp'.req.groupPassword
             k == Cardinality(votes' \ votes) + 1
         IN  /\ resp'.data.kind = "Vote already submitted" =>
                   /\ k \in DOMAIN batch
                   /\ \E i \in 1..(k - 1) : batch[i].projectId = batch[k].projectId
             /\ \A j \in DOMAIN batch :
                   ( /\ GateOpen(e)
                     /\ \A i \in 1..(j - 1) : Stored(events[e], batch, pw, i)
                     /\ Resolves(events[e], batch[j])
                     /\ PasswordOk(events[e], batch[j].groupId, pw)
                     /\ ScoresFit(events[e], batch[j].scores)
                     /\ \E i \in 1..(j - 1) : batch[i].projectId = batch[j].projectId )
                   => resp'.data.kind = "Vote already submitted"]_vars

\* A second submission names project 3 twice: its first entry is stored next to
\* the Vote an earlier submission cast for project 3, its second is refused.
C23_Witness ==
    /\ resp.op = "submitVote"
    /\ resp.data.kind = "Vote already submitted"
    /\ resp.req.votes[1].projectId = resp.req.votes[2].projectId
    /\ \E v, w \in votes :
          /\ v.project = w.project
          /\ v.voterSessionId # w.voterSessionId
          /\ votes = {v, w}

(***************************************************************************)
(* Properties of the results aggregator (SpecResults).                     *)
(***************************************************************************)
\* A results response and the event, votes and override weights it was computed
\* from.
ResultsSent == resp.op \in {"getResults", "getPublicResults"} /\ resp.status = 200

SentEvent == events[resp.req.event]

SentVotes == {v \in votes : v.event = resp.req.event}

SentWeights == IF resp.op = "getPublicResults" THEN resp.req.weights.map ELSE NoWeights

RECURSIVE FracSum(_)
FracSum(s) == IF s = <<>> THEN FracZero ELSE FracAdd(Head(s), FracSum(Tail(s)))

VoteTotal(v) == SumF(v.scores, DOMAIN v.scores)

\* The votes counted for a project, and those of them cast in one group.
CountedFor(ev, vs, pid) == {v \in vs : v.project = pid /\ v.group \in IdsOf(ev.groups)}

CountedIn(ev, vs, pid, gid) == {v \in CountedFor(ev, vs, pid) : v.group = gid}

\* A group's own average for a project: 0 when it cast no counted vote.
OwnAverage(ev, vs, pid, gid) ==
    LET S == CountedIn(ev, vs, pid, gid)
    IN  IF S = {} THEN FracZero
        ELSE Frac(SumF([v \in S |-> VoteTotal(v)], S), Cardinality(S))

WeightIn(g, weights) == IF g._id \in DOMAIN weights THEN weights[g._id] ELSE g.weight

\* The weighted mean of the groups' own averages, 0 when the weights sum to 0.
WeightedMean(ev, vs, weights, pid) ==
    LET tw == SumSeq([k \in DOMAIN ev.groups |-> WeightIn(ev.groups[k], weights)])
        ws == FracSum([k \in DOMAIN ev.groups |->
                         FracMulInt(OwnAverage(ev, vs, pid, ev.groups[k]._id),
                                    WeightIn(ev.groups[k], weights))])
    IN  IF tw = 0 THEN FracZero ELSE FracDivInt(ws, tw)

PosIn(list, id) == CHOOSE i \in DOMAIN list : list[i]._id = id

\* C5: every project's finalScore is the sum over the event's groups of that
\* group's average for the project times the group's effective weight, divided by
\* the sum of the effective weights, and 0 when that sum is 0.  Stated for
\* effective weights that are not negative, where a sum that is not positive is a
\* sum of 0.
C5_FinalScoreIsWeightedMean ==
    ( /\ ResultsSent
      /\ \A k \in DOMAIN SentEvent.groups : WeightIn(SentEvent.groups[k], SentWeights) >= 0 )
    => \A i \in DOMAIN resp.data.results.projects :
          LET pr == resp.data.results.projects[i]
          IN  FracEq(pr.finalScore,
                     WeightedMean(SentEvent, SentVotes, SentWeights, pr.id))

\* C6: every project's totalScore is the sum of the per-vote totals of the votes
\* counted for it, each the sum of the vote's criterion scores; voteCount is their
\* number and averageScore their quotient, 0 when no vote was counted.
C6_ProjectTotals ==
    ResultsSent =>
        \A i \in DOMAIN resp.data.results.projects :
            LET pr == resp.data.results.projects[i]
                S == CountedFor(SentEvent, SentVotes, pr.id)
                total == SumF([v \in S |-> VoteTotal(v)], S)
            IN  /\ pr.totalScore = total
                /\ pr.voteCount = Cardinality(S)
                /\ IF S = {} THEN FracEq(pr.averageScore, FracZero)
                   ELSE FracEq(pr.averageScore, Frac(total, Cardinality(S)))

\* One vote {Creativity: 8, Execution: 6} in a one-group event: totalScore 14,
\* averageScore 14, groupAverages 14, finalScore 14, rank 1.
C6_Witness ==
    /\ ResultsSent
    /\ Len(SentEvent.groups) = 1
    /\ \E v \in votes : votes = {v} /\ v.scores = [Creativity |-> 8, Execution |-> 6]
    /\ \E i \in DOMAIN resp.data.results.projects :
          LET pr == resp.data.results.projects[i]
          IN  /\ pr.totalScore = 14
              /\ pr.voteCount = 1
              /\ FracEq(pr.averageScore, FracOfInt(14))
              /\ FracEq(pr.groupAverages[SentEvent.groups[1].name], FracOfInt(14))
              /\ FracEq(pr.finalScore, FracOfInt(14))
              /\ pr.rank = 1

\* Ranked(list, key, order): list holds one entry per element of order, in
\* non-increasing key, entry i has rank i, and entries with equal keys stand in
\* the order of their elements in order.
Ranked(list, key(_), order) ==
    /\ Len(list) = Len(order)
    /\ {list[i].id : i \in DOMAIN list} = IdsOf(order)
    /\ \A i \in DOMAIN list : list[i].rank = i
    /\ \A i, j \in DOMAIN list :
          i < j => /\ FracLe(key(list[j]), key(list[i]))
                   /\ FracEq(key(list[i]), key(list[j]))
                         => PosIn(order, list[i].id) < PosIn(order, list[j].id)

ByFinalScore(pr) == pr.finalScore

ByTotalScore(gr) == FracOfInt(gr.totalScore)

\* C7: the projects come back in non-increasing finalScore and the groups in
\* non-increasing totalScore, rank is the position from 1 to N, and entries that
\* tie keep the order of the event's own list.
C7_RankedOrder ==
    ResultsSent =>
        /\ Ranked(resp.data.results.projects, ByFinalScore, SentEvent.projects)
        /\ Ranked(resp.data.results.groups, ByTotalScore, SentEvent.groups)

\* Two projects tie on finalScore above 0 and come back in list order, ranks 1
\* and 2, while the groups are reordered by totalScore.
C7_Witness ==
    /\ ResultsSent
    /\ Len(resp.data.results.projects) = 2
    /\ LET p1 == resp.data.results.projects[1]
           p2 == resp.data.results.projects[2]
       IN  /\ FracEq(p1.finalScore, p2.finalScore)
           /\ FracLt(FracZero, p1.finalScore)
           /\ p1.id = SentEvent.projects[1]._id
           /\ p1.rank = 1
           /\ p2.rank = 2
    /\ Len(resp.data.results.groups) = 2
    /\ resp.data.results.groups[1].id = SentEvent.groups[2]._id
    /\ resp.data.results.groups[1].totalScore > resp.data.results.groups[2].totalScore

\* A results request being answered, and the group of an event with a given id.
ResultsStep == resp.op = "none" /\ resp'.op \in {"getResults", "getPublicResults"}

GroupById(ev, gid) == CHOOSE g \in Range(ev.groups) : g._id = gid

\* C15: the weight a results response reports for a group is the override value
\* when the override mapping holds the group's id, whatever the value, and the
\* group's stored weight otherwise; a public results request leaves the stored
\* weight of every group as it was.
C15_OverrideVerbatim ==
    [][(resp.op = "none" /\ resp'.op = "getPublicResults") =>
          /\ events' = events
          /\ resp'.status = 200 =>
                LET ev == events[resp'.req.event]
                    weights == resp'.req.weights.map
                    groups == resp'.data.results.groups
                IN  \A i \in DOMAIN groups :
                       LET g == GroupById(ev, groups[i].id)
                       IN  groups[i].weight = IF g._id \in DOMAIN weights
                                              THEN weights[g._id]
                                              ELSE g.weight]_vars

\* An override of -10 for group 1 alone: the response reports -10 for group 1 and
\* the stored weight for group 2, and group 1 still stores its own weight.
C15_Witness ==
    /\ resp.op = "getPublicResults"
    /\ resp.status = 200
    /\ DOMAIN resp.req.weights.map = {1}
    /\ resp.req.weights.map[1] = 0 - 10
    /\ Len(SentEvent.groups) = 2
    /\ GroupById(SentEvent, 1).weight = 70
    /\ \E i, j \in DOMAIN resp.data.results.groups :
          /\ resp.data.results.groups[i].id = 1
          /\ resp.data.results.groups[i].weight = 0 - 10
          /\ resp.data.results.groups[j].id = 2
          /\ resp.data.results.groups[j].weight = GroupById(SentEvent, 2).weight

\* The votes counted for a group: those of the event cast in it for a project of
\* the event.
CountedOfGroup(ev, vs, gid) ==
    {v \in vs : v.group = gid /\ v.project \in IdsOf(ev.projects)}

\* C16: every group's voterCount is the number of distinct voterSessionId values
\* among the votes counted for the group, voteCount the number of those votes and
\* totalScore the sum of their per-vote totals.
C16_GroupCounts ==
    ResultsSent =>
        \A i \in DOMAIN resp.data.results.groups :
            LET gr == resp.data.results.groups[i]
                S == CountedOfGroup(SentEvent, SentVotes, gr.id)
            IN  /\ gr.voterCount = Cardinality({v.voterSessionId : v \in S})
                /\ gr.voteCount = Cardinality(S)
                /\ gr.totalScore = SumF([v \in S |-> VoteTotal(v)], S)

\* One voter session scores both projects in one group: the group reports
\* voteCount 2 and voterCount 1.
C16_Witness ==
    /\ ResultsSent
    /\ \E v1, v2 \in votes :
          /\ v1.project # v2.project
          /\ v1.group = v2.group
          /\ v1.voterSessionId = v2.voterSessionId
          /\ votes = {v1, v2}
          /\ \E i \in DOMAIN resp.data.results.groups :
                LET gr == resp.data.results.groups[i]
                IN  /\ gr.id = v1.group
                    /\ gr.voteCount = 2
                    /\ gr.voterCount = 1
                    /\ gr.totalScore = VoteTotal(v1) + VoteTotal(v2)

\* C17: a results request, owner or public, with or without an override, leaves
\* the Event store and the Vote store unchanged, and the lists it returns are
\* the value of calculateResults on the event, its votes and the override, so
\* that requests on the same three return the same lists.
C17_AggregationIsPure ==
    [][ResultsStep =>
          /\ events' = events
          /\ votes' = votes
          /\ resp'.status = 200 =>
                LET e == resp'.req.event
                    weights == IF resp'.op = "getPublicResults"
                               THEN resp'.req.weights.map ELSE NoWeights
                IN  resp'.data.results =
                       calculateResults(events[e], {v \in votes : v.event = e}, weights)]_vars

\* A public results response computed on three votes under an override that
\* differs from the stored weight of both groups.
C17_Witness ==
    /\ resp.op = "getPublicResults"
    /\ resp.status = 200
    /\ Cardinality(votes) = 3
    /\ DOMAIN resp.req.weights.map = {1, 2}
    /\ \A k \in DOMAIN SentEvent.groups :
          resp.req.weights.map[SentEvent.groups[k]._id] # SentEvent.groups[k].weight
    /\ resp.data.totalVotes = 3

\* C20: results of an event that has no votes are answered 200 with totalVotes 0
\* and totalVoters 0; every project has voteCount 0, totalScore 0, averageScore 0
\* and finalScore 0, every group voteCount 0, voterCount 0 and totalScore 0, and
\* both lists are the event's lists in their own order with ranks 1..N.
C20_ZeroVotes ==
    LET e == resp.req.event
    IN  ( /\ resp.op \in {"getResults", "getPublicResults"}
          /\ Exists(e)
          /\ {v \in votes : v.event = e} = {}
          /\ resp.op = "getResults" => resp.req.user = events[e].owner
          /\ resp.op = "getPublicResults" =>
                 events[e].isActive /\ resp.req.weights.kind # "invalid" )
        => /\ resp.status = 200
           /\ resp.data.totalVotes = 0
           /\ resp.data.totalVoters = 0
           /\ Len(resp.data.results.projects) = Len(events[e].projects)
           /\ Len(resp.data.results.groups) = Len(events[e].groups)
           /\ \A i \in DOMAIN resp.data.results.projects :
                 LET pr == resp.data.results.projects[i]
                 IN  /\ pr.id = events[e].projects[i]._id
                     /\ pr.rank = i
                     /\ pr.voteCount = 0
                     /\ pr.totalScore = 0
                     /\ FracEq(pr.averageScore, FracZero)
                     /\ FracEq(pr.finalScore, FracZero)
           /\ \A i \in DOMAIN resp.data.results.groups :
                 LET gr == resp.data.results.groups[i]
                 IN  /\ gr.id = events[e].groups[i]._id
                     /\ gr.rank = i
                     /\ gr.voteCount = 0
                     /\ gr.voterCount = 0
                     /\ gr.totalScore = 0

\* The owner's results of a two-group, two-project event without votes.
C20_Witness ==
    /\ resp.op = "getResults"
    /\ resp.status = 200
    /\ votes = {}
    /\ Len(SentEvent.groups) = 2
    /\ resp.data.totalVoters = 0
    /\ resp.data.results.projects[2].id = SentEvent.projects[2]._id
    /\ resp.data.results.projects[2].rank = 2
    /\ resp.data.results.groups[2].rank = 2

\* C27: whether or not the event's group names are distinct, a project's
\* finalScore is the sum over the groups, taken by id, of the group's own average
\* on the project times its weight, divided by the sum of the weights, when that
\* sum is positive.
C27_OwnAverageById ==
    ResultsSent =>
        LET tw == SumSeq([k \in DOMAIN SentEvent.groups |->
                            WeightIn(SentEvent.groups[k], SentWeights)])
        IN  tw > 0 =>
              \A i \in DOMAIN resp.data.results.projects :
                 LET pr == resp.data.results.projects[i]
                     ws == FracSum([k \in DOMAIN SentEvent.groups |->
                              FracMulInt(OwnAverage(SentEvent, SentVotes, pr.id,
                                                    SentEvent.groups[k]._id),
                                         WeightIn(SentEvent.groups[k], SentWeights))])
                 IN  FracEq(pr.finalScore, FracDivInt(ws, tw))

\* The same for events whose group names are distinct.
DistinctNames(ev) ==
    \A i, j \in DOMAIN ev.groups : ev.groups[i].name = ev.groups[j].name => i = j

OwnAverageByIdForDistinctNames == (ResultsSent /\ DistinctNames(SentEvent)) => C27_OwnAverageById

(***************************************************************************)
(* Properties of the voting-window evaluator (SpecStatus).                 *)
(***************************************************************************)
StatusRead == resp.op = "votingStatus"

ReadEvent == events[resp.req.event]

OwnerOnly ==
    {"getEvent", "updateEvent", "deleteEvent", "openVoting", "closeVoting", "addGroup",
     "removeGroup", "addProject", "removeProject", "addCriteria", "removeCriteria",
     "updateGroupWeight", "getResults"}

\* The request named in a response passed the input validation of its route.
PassedValidation(r) ==
    CASE r.op = "updateEvent" -> r.req.body.valid
      [] r.op = "addGroup" ->
            r.req.body.weight = NoWeight \/ r.req.body.weight \in 0..100
      [] r.op = "addProject" -> r.req.body.name # ""
      [] r.op = "addCriteria" -> r.req.body.maxScore \in 1..100
      [] r.op = "updateGroupWeight" -> r.req.weight \in 0..100
      [] OTHER -> TRUE

\* C9: a request for an owner-only operation on an existing event by a caller who
\* is not its owner leaves the Event store and the Vote store as they were, and,
\* having passed the route's input validation, is answered 403.
C9_OwnerOnly ==
    [][ ( /\ resp.op = "none"
          /\ resp'.op \in OwnerOnly
          /\ Exists(resp'.req.event)
          /\ events[resp'.req.event].owner # resp'.req.user )
        => /\ events' = events
           /\ votes' = votes
           /\ PassedValidation(resp') => resp'.status = 403 ]_vars

\* A caller who is not the owner asks to remove a group that holds a vote and is
\* answered 403; the group and the vote are still there.
C9_Witness ==
    /\ resp.op = "removeGroup"
    /\ resp.status = 403
    /\ Exists(resp.req.event)
    /\ events[resp.req.event].owner # resp.req.user
    /\ resp.req.groupId \in IdsOf(events[resp.req.event].groups)
    /\ \E v \in votes : v.event = resp.req.event /\ v.group = resp.req.groupId

\* Vote codes compared without regard to case.
FoldCase(str) == IF str = "AB12" THEN "ab12" ELSE IF str = "ZZ99" THEN "zz99" ELSE str

OtherPasswords == {"pw", "other"}

\* The events that differ from ev at most in the non-empty passwords of groups.
Repassworded(ev) ==
    {[ev EXCEPT !.groups = [i \in DOMAIN ev.groups |->
                              [ev.groups[i] EXCEPT !.password =
                                  IF ev.groups[i].password = "" THEN "" ELSE f[i]]]] :
        f \in [DOMAIN ev.groups -> OtherPasswords]}

\* C10: the fetch by vote code answers 200 exactly when an active event bears the
\* code up to case, and 404 otherwise; the view it returns is the view of every
\* event that differs only in non-empty group passwords, and each group in it
\* carries id, name, weight and a boolean hasPassword and nothing else.
C10_PublicViewHidesPasswords ==
    resp.op = "getEventByVoteCode" =>
        LET matches == {e \in DOMAIN events :
                          /\ events[e].isActive
                          /\ FoldCase(events[e].voteCode) = FoldCase(resp.req.voteCode)}
        IN  /\ resp.status = IF matches = {} THEN 404 ELSE 200
            /\ resp.status = 200 =>
                  \E e \in matches :
                     /\ resp.data.id = e
                     /\ \A other \in Repassworded(events[e]) :
                           publicEvent(e, other) = resp.data
                     /\ \A i \in DOMAIN resp.data.groups :
                           /\ DOMAIN resp.data.groups[i] = {"id", "name", "weight", "hasPassword"}
                           /\ resp.data.groups[i].hasPassword
                                 = (events[e].groups[i].password # "")

\* A lower-case code finds the event; its password-protected group shows
\* hasPassword and no password.
C10_Witness ==
    /\ resp.op = "getEventByVoteCode"
    /\ resp.status = 200
    /\ resp.req.voteCode = "ab12"
    /\ \E i \in DOMAIN resp.data.groups :
          /\ events[resp.data.id].groups[i].password = "pw"
          /\ resp.data.groups[i].hasPassword

\* The stored weights and maximum scores of a store of events.
InRange(evs) ==
    \A x \in DOMAIN evs :
        /\ \A i \in DOMAIN evs[x].groups : evs[x].groups[i].weight \in 0..100
        /\ \A i \in DOMAIN evs[x].criteria : evs[x].criteria[i].maxScore \in 1..100

\* The request named in a response carries a weight outside 0..100 or a maxScore
\* outside 1..100.
CarriesOutOfRange(r) ==
    CASE r.op = "createEvent" ->
            \/ \E i \in DOMAIN r.req.body.groups :
                  r.req.body.groups[i].weight # NoWeight
                  /\ r.req.body.groups[i].weight \notin 0..100
            \/ \E i \in DOMAIN r.req.body.criteria :
                  r.req.body.criteria[i].maxScore \notin 1..100
      [] r.op = "addGroup" ->
            r.req.body.weight # NoWeight /\ r.req.body.weight \notin 0..100
      [] r.op = "updateGroupWeight" -> r.req.weight \notin 0..100
      [] r.op = "addCriteria" -> r.req.body.maxScore \notin 1..100
      [] OTHER -> FALSE

C22_CriteriaAtCreation ==
    [][(resp.op = "none" /\ resp'.op = "createEvent" /\ resp'.status = 201) =>
          LET new == CHOOSE x \in DOMAIN events' : x \notin DOMAIN events
              supplied == resp'.req.body.criteria
          IN  /\ DOMAIN events' \ DOMAIN events # {}
              /\ events'[new].criteria =
                    IF supplied = <<>>
                    THEN << [name |-> "Creativity", maxScore |-> 10],
                            [name |-> "Execution", maxScore |-> 10],
                            [name |-> "Impact", maxScore |-> 10] >>
                    ELSE supplied]_vars

\* An event created with one criterion of its own is stored with that criterion
\* alone.
C22_Witness ==
    /\ resp.op = "createEvent"
    /\ resp.status = 201
    /\ Len(resp.req.body.criteria) = 1
    /\ \E x \in DOMAIN events : events[x].criteria = resp.req.body.criteria

\* C26: in every results response totalVotes is the sum of voteCount over the
\* listed projects and over the listed groups, and totalVoters is the number of
\* distinct voter sessions among the votes counted in the lists.
C26_TotalsMatchLists ==
    ResultsSent =>
        LET ps == resp.data.results.projects
            gs == resp.data.results.groups
            counted == {v \in SentVotes : /\ v.project \in IdsOf(SentEvent.projects)
                                           /\ v.group \in IdsOf(SentEvent.groups)}
        IN  /\ resp.data.totalVotes = SumSeq([i \in DOMAIN ps |-> ps[i].voteCount])
            /\ resp.data.totalVotes = SumSeq([i \in DOMAIN gs |-> gs[i].voteCount])
            /\ resp.data.totalVoters = Cardinality({v.voterSessionId : v \in counted})

\* C28: after removeCriteria succeeds at index i the event's criteria are the
\* previous list without its i-th element, the others unchanged and in order,
\* also when that element was the only one; with an index that is no integer in
\* 0..length-1 the answer is 400 and the list is unchanged.
C28_RemoveCriteriaFrame ==
    [][(resp.op = "none" /\ resp'.op = "removeCriteria") =>
          LET e == resp'.req.event
              i == resp'.req.index
          IN  /\ resp'.status = 200 =>
                    LET old == events[e].criteria
                    IN  events'[e].criteria =
                           [j \in 1..(Len(old) - 1) |-> IF j <= i THEN old[j] ELSE old[j + 1]]
              /\ ( /\ Exists(e)
                    /\ events[e].owner = resp'.req.user
                    /\ i \notin 0..(Len(events[e].criteria) - 1) )
                  => resp'.status = 400 /\ events' = events]_vars

(***************************************************************************)
(* Properties of removals and the life of a vote (SpecCascade).            *)
(***************************************************************************)
\* A request of the named handler being answered.
Answered(op) == resp.op = "none" /\ resp'.op = op

\* C18: when removeGroup(event, g) answers with success, g is not among the
\* event's groups and the Vote store holds no Vote of that event and group; the
\* Votes of other groups and other events are the ones that were there, the
\* event's other groups, its projects and its criteria are as they were, and so
\* is every other event.
C18_RemoveGroupFrame ==
    [][(Answered("removeGroup") /\ resp'.status = 200) =>
          LET e == resp'.req.event
              g == resp'.req.groupId
          IN  /\ g \notin IdsOf(events'[e].groups)
              /\ \A v \in votes' : ~(v.event = e /\ v.group = g)
              /\ votes' = {v \in votes : v.event # e \/ v.group # g}
              /\ events'[e].groups = SelectSeq(events[e].groups, LAMBDA x : x._id # g)
              /\ events'[e].projects = events[e].projects
              /\ events'[e].criteria = events[e].criteria
              /\ DOMAIN events' = DOMAIN events
              /\ \A x \in DOMAIN events \ {e} : events'[x] = events[x]]_vars

\* Group 1 of event 1 has been removed: group 2 is the event's only group, and
\* a Vote of group 2 and a Vote of event 2 are in the store.
C18_Witness ==
    /\ resp.op = "removeGroup"
    /\ resp.status = 200
    /\ resp.req.event = 1
    /\ resp.req.groupId = 1
    /\ IdsOf(events[1].groups) = {2}
    /\ Len(events[1].projects) = 2
    /\ \E v, w \in votes : v.event = 1 /\ v.group = 2 /\ w.event = 2
    /\ \A v \in votes : v.event = 1 => v.group = 2

\* C19: a Vote in the store stays in it with the fields it has, unless a
\* successful removeGroup for its event and group takes it out; deleteEvent,
\* removeProject, removeCriteria, updateEvent, openVoting, closeVoting and
\* updateGroupWeight leave the Vote store unchanged.
C19_VotesLeaveOnlyByRemoveGroup ==
    [][ /\ \A v \in votes :
              \/ v \in votes'
              \/ /\ resp'.op = "removeGroup"
                 /\ resp'.status = 200
                 /\ resp'.req.event = v.event
                 /\ resp'.req.groupId = v.group
                 /\ \A w \in votes' : ~(w.event = v.event /\ w._id = v._id)
        /\ resp'.op \in {"deleteEvent", "removeProject", "removeCriteria", "updateEvent",
                          "openVoting", "closeVoting", "updateGroupWeight"}
              => votes' = votes ]_vars

\* Event 1 has been deleted and a Vote of it is still in the store.
C19_Witness ==
    /\ resp.op = "deleteEvent"
    /\ resp.status = 200
    /\ resp.req.event = 1
    /\ 1 \notin DOMAIN events
    /\ \E v \in votes : v.event = 1

(***************************************************************************)
(* Properties of a submission that other requests interleave (SpecRace).   *)
(***************************************************************************)
\* C24: whatever requests are served while a submission is under way, a Vote is
\* stored only at a moment when the votingStatus of its event is "open".
C24_NoVoteSavedAfterClose ==
    [][\A v \in votes' \ votes :
          Exists(v.event) /\ votingStatus(events[v.event], now) = "open"]_vars

\* C25: in every state, every stored Vote of an event that exists names a group
\* that is in the event's groups.
C25_VotesNameGroupsOfTheEvent ==
    \A v \in votes : Exists(v.event) => v.group \in IdsOf(events[v.event].groups)

(***************************************************************************)
(* Properties of the pages (SpecPages).                                    *)
(***************************************************************************)
\* C29: whenever the voting page has loaded an event, the status it shows is
\* the votingStatus the backend evaluates for that event at that instant,
\* forced open and forced closed included.
C29_PageStatusIsBackendStatus ==
    (resp.op = "VotingPage" /\ resp.status = 200)
        => resp.data.votingStatus = votingStatus(events[resp.data.id], now)

\* C30: no step other than a manual open or an update of the event takes an
\* event whose override is false out of the "closed" status; loading the event
\* detail page in particular leaves the override false.
C30_ClosedStaysClosed ==
    [][\A e \in DOMAIN events :
          events[e].isVotingOpen = "false"
              => /\ e \in DOMAIN events'
                 /\ events'[e].isVotingOpen = "false"
                 /\ votingStatus(events'[e], now') = "closed"]_vars

====
